---- MODULE Spec2Model ----
(***************************************************************************)
(* Model of the photo-sorter-go organize pipeline                          *)
(* (internal/organizer/organizer.go, internal/statistics/statistics.go,    *)
(* the EXIF date extractor and internal/config/config.go).                 *)
(*                                                                         *)
(* A path is a record [dir, stem, ext]: dir is the sequence of directory   *)
(* components, stem the file name without its extension, ext the           *)
(* extension with its dot.  The filesystem is a function from the paths    *)
(* of the existing regular files to their data, and a set of existing      *)
(* directories.                                                            *)
(***************************************************************************)
EXTENDS Integers, Sequences, FiniteSets, TLC

(***************************************************************************)
(* Bounds of the model.                                                    *)
(***************************************************************************)
MaxWorkers == 2
MaxBatch == 2
MaxFiles == 2

(***************************************************************************)
(* Paths, dates and file data.                                             *)
(***************************************************************************)
NoDate == [y |-> 0, m |-> 0, d |-> 0]
DateA == [y |-> 2024, m |-> 12, d |-> 25]
DateB == [y |-> 2023, m |-> 11, d |-> 20]
NowDate == [y |-> 2026, m |-> 10, d |-> 10]

SourceRoot == <<"src">>
TargetRoot == <<"tgt">>

P(dir, stem, ext) == [dir |-> dir, stem |-> stem, ext |-> ext]

\* permission bits: what os.Create gives a new file, and a stricter mode
CreateMode == "rw-r--r--"
PrivateMode == "rw-------"

\* data of a regular file: content, embedded (EXIF) date, size, mtime (whole
\* seconds, here a day), the sub-second part of the mtime, permission bits
F(c, exif, size, mtime, mode) ==
    [content |-> c, exif |-> exif, size |-> size, mtime |-> mtime, ns |-> 0, mode |-> mode]

\* time.Time.Format for the layouts the model uses
FormatDate(layout, date) ==
    CASE layout = "2006/01/02" -> <<ToString(date.y), ToString(date.m), ToString(date.d)>>
      [] layout = "2006/01" -> <<ToString(date.y), ToString(date.m)>>
      [] layout = "2006-01-02" -> <<ToString(date.y) \o "-" \o ToString(date.m) \o "-" \o ToString(date.d)>>
      [] layout = "2006-01" -> <<ToString(date.y) \o "-" \o ToString(date.m)>>
      [] OTHER -> <<ToString(date.y)>>

(***************************************************************************)
(* Configuration (config.Config): the fields the pipeline reads.           *)
(***************************************************************************)
ImageExtensions == {".jpg", ".png"}
VideoExtensions == {".mp4", ".mpg", ".thm"}

IsImageExtension(ext) == ext \in ImageExtensions
IsVideoExtension(ext) == ext \in VideoExtensions
isSupportedFile(ext) == IsImageExtension(ext) \/ IsVideoExtension(ext)

\* TargetDirectory is a *string: the nil pointer, and a pointer to ""
NilTarget == <<>>
EmptyTarget == <<"">>

\* Config.GetTargetDirectory: the target, or the source when none is set
GetTargetDirectory_NilOnly(c) ==
    IF c.TargetDirectory /= NilTarget THEN c.TargetDirectory ELSE c.SourceDirectory
GetTargetDirectory(c) ==
    IF c.TargetDirectory /= NilTarget /\ c.TargetDirectory /= EmptyTarget
    THEN c.TargetDirectory ELSE c.SourceDirectory


(***************************************************************************)
(* The files a run may meet.  Walk order is filepath.Walk's lexical order. *)
(***************************************************************************)
DirA == TargetRoot \o FormatDate("2006/01/02", DateA)

SrcA == P(SourceRoot, "a", ".jpg")
SrcA1 == P(SourceRoot, "a_1", ".jpg")
SrcSubA == P(SourceRoot \o <<"sub">>, "a", ".jpg")
SrcV == P(SourceRoot, "v", ".mpg")
SrcThm == P(SourceRoot, "v", ".thm")

SrcTxt == P(SourceRoot, "b", ".txt")

\* a directory as an entry of the walk
Dir(d) == P(d, "", "")
IsDir(p) == p.stem = "" /\ p.ext = ""

\* directories of the source tree with date-like names, and files in them
DirYear == SourceRoot \o <<"2024">>
DirYearMonth == DirYear \o <<"12">>
DirYearMonthDay == DirYearMonth \o <<"25">>
DirDashMonth == SourceRoot \o <<"2024-12">>
DirDashDay == SourceRoot \o <<"2024-12-25">>
DirBadMonth == SourceRoot \o <<"2024-13">>
DirSubDay == SourceRoot \o <<"sub", "2024-12-25">>

SrcY == P(DirYear, "y", ".jpg")
SrcZ == P(DirYearMonth, "z", ".jpg")
SrcQ == P(DirBadMonth, "q", ".jpg")
SrcW == P(DirSubDay, "w", ".jpg")

\* the files an in-place run may leave in a date directory of the source tree
Organized(dir) == <<P(dir, "a", ".jpg"), P(dir, "a_1", ".jpg")>>

\* everything filepath.Walk may visit, in its order (names sorted within
\* each directory, a directory's entries right after the directory)
WalkEntries == <<Dir(SourceRoot), Dir(DirYear), Dir(DirYearMonth), Dir(DirYearMonthDay)>>
               \o Organized(DirYearMonthDay) \o Organized(DirYearMonth) \o <<SrcZ>>
               \o Organized(DirYear) \o <<SrcY, Dir(DirDashMonth)>> \o Organized(DirDashMonth)
               \o <<Dir(DirDashDay)>> \o Organized(DirDashDay)
               \o <<Dir(DirBadMonth), SrcQ, SrcA, SrcA1, SrcTxt,
                    Dir(SourceRoot \o <<"sub">>), Dir(DirSubDay), SrcW, SrcSubA, SrcV, SrcThm>>

WalkOrder == <<SrcA, SrcA1, SrcSubA, SrcV, SrcThm>>

\* what each source file holds when it exists
SourceData(p) ==
    CASE p = SrcA -> F(1, DateA, 1, DateB, PrivateMode)
      [] p = SrcA1 -> F(2, DateA, 2, DateB, CreateMode)
      [] p = SrcSubA -> F(4, NoDate, 1, DateA, PrivateMode)
      [] p = SrcV -> F(5, NoDate, 2, DateA, CreateMode)
      [] OTHER -> F(6, NoDate, 1, DateA, CreateMode)

TgtA == P(DirA, "a", ".jpg")
TgtA1 == P(DirA, "a_1", ".jpg")
TargetData(p) ==
    IF p = TgtA THEN F(8, DateA, 1, DateA, CreateMode) ELSE F(9, DateA, 1, DateA, CreateMode)

Range(s) == {s[i] : i \in 1..Len(s)}
SourceChoices == {S \in SUBSET Range(WalkOrder) : Cardinality(S) <= MaxFiles}
TargetChoices == SUBSET {TgtA, TgtA1}

(***************************************************************************)
(* State.                                                                  *)
(***************************************************************************)
VARIABLES
    cfg,        \* config.Config of the current run
    fs,         \* regular files: path -> data
    dirs,       \* existing directories
    ioFail,     \* source paths whose rename/copy the OS refuses
    mkdirFail,  \* directories the OS refuses to create
    cache,      \* EXIFExtractor.cache: key -> date
    cstats,     \* EXIFExtractor.stats (Hits, Misses)
    stats,      \* statistics.Statistics counters
    errors,     \* statistics.Statistics.Errors
    finalized,  \* number of Finalize calls on the current Statistics
    mainPc,     \* position of OrganizeFiles
    files,      \* the slice returned by discoverFiles
    sent,       \* number of files the feeder goroutine has sent
    fileChan,   \* buffered channel contents
    closed,     \* fileChan closed
    wpc,        \* position of each worker goroutine
    wfile,      \* the FileInfo a worker holds
    wtarget,    \* targetPath / newTargetPath of the worker's file
    wcounter,   \* generateUniqueFilename's counter
    taken,      \* history: the workers that dequeued each file index
    fs0,        \* history: filesystem when the run started
    dirs0,      \* history: directories when the run started
    prior,      \* history: Statistics of the finished earlier runs
    raced,      \* history: two workers saw the same destination free at once
    resolved,   \* history: the ExtractDate calls made on the extractor directly
    extractor,  \* the DateExtractor the organizer was constructed with
    walkFail,   \* entries of the source tree that cannot be read during the walk
    plans,      \* history: the destination planned for each file of this run
    server,     \* the web server: isRunning, and what was asked of it during a run
    mutex,      \* Statistics.mutex: the caller that holds it, 0 when free
    caller,     \* the goroutines calling Statistics methods: position and locals
    calls,      \* history: the Statistics calls each goroutine has completed
    summary     \* the last GetErrorSummary: its lines, and how many calls were made

vars == <<cfg, fs, dirs, ioFail, mkdirFail, cache, cstats, stats, errors,
          finalized, mainPc, files, sent, fileChan, closed, wpc, wfile,
          wtarget, wcounter, taken, fs0, dirs0, prior, raced, resolved, extractor, walkFail, plans, server, mutex, caller, calls, summary>>

\* NewFileOrganizerWithLogHook: "if workers <= 0 { workers = 4 }"
DefaultWorkers == 4

\* the goroutines processFiles may spawn
Workers == 1..(IF MaxWorkers > DefaultWorkers THEN MaxWorkers ELSE DefaultWorkers)

NoFile == [Path |-> P(<<>>, "", ""), Size |-> 0, Extension |-> "",
           IsImage |-> FALSE, IsVideo |-> FALSE, HasThumbnail |-> FALSE,
           ThumbnailPath |-> P(<<>>, "", "")]
NoPath == P(<<>>, "", "")

\* statistics.NewStatistics
NewStatistics ==
    [TotalFilesFound |-> 0, TotalFilesProcessed |-> 0, FilesOrganized |-> 0,
     FilesMoved |-> 0, FilesCopied |-> 0, FilesSkipped |-> 0,
     FilesWithErrors |-> 0, FilesWithoutDates |-> 0,
     ThumbnailsFound |-> 0, DuplicatesFound |-> 0, DuplicatesRenamed |-> 0,
     DuplicatesSkipped |-> 0, DuplicatesReplaced |-> 0,
     DirectoriesCreated |-> 0, DirectoriesScanned |-> 0,
     BytesProcessed |-> 0, FromEXIF |-> 0, FromModTime |-> 0,
     ExtractionErrors |-> 0]

\* the atomic.AddInt64(&s.X, 1) of every Increment* method
Increment(s, field) == [s EXCEPT ![field] = @ + 1]

DryRunChoices == BOOLEAN
MoveChoices == BOOLEAN
StrategyChoices == {"skip", "overwrite", "rename"}
BackupChoices == {FALSE}

Configs ==
    [SourceDirectory : {SourceRoot}, TargetDirectory : {TargetRoot},
     DateFormat : {"2006/01/02"}, MoveFiles : MoveChoices,
     DuplicateHandling : StrategyChoices, CreateBackups : BackupChoices,
     DryRun : DryRunChoices, WorkerThreads : 1..MaxWorkers,
     BatchSize : 1..MaxBatch, MaxFilesPerRun : {0}, SkipOrganized : {TRUE}]

\* a fresh extractor, Statistics and organizer over the tree as it is
FreshOver(dateExtractor, unreadable) ==
    /\ extractor = dateExtractor
    /\ walkFail = unreadable
    /\ plans = <<>>
    /\ server = [isRunning |-> FALSE, stopped |-> FALSE, overlapped |-> FALSE]
    /\ mutex = 0
    /\ caller = [w \in Workers |-> [pc |-> "idle", op |-> "", reg |-> 0, slice |-> <<>>]]
    /\ calls = [w \in Workers |-> [adds |-> 0, sizes |-> 0, bytes |-> 0, locked |-> 0, errors |-> 0]]
    /\ summary = [calls |-> 0, lines |-> <<>>]
    /\ cache = <<>>
    /\ cstats = [Hits |-> 0, Misses |-> 0]
    /\ stats = NewStatistics
    /\ errors = <<>>
    /\ finalized = 0
    /\ files = <<>>
    /\ sent = 0
    /\ fileChan = <<>>
    /\ closed = FALSE
    /\ wpc = [w \in Workers |-> "off"]
    /\ wfile = [w \in Workers |-> NoFile]
    /\ wtarget = [w \in Workers |-> NoPath]
    /\ wcounter = [w \in Workers |-> 0]
    /\ taken = <<>>
    /\ fs0 = fs
    /\ dirs0 = dirs
    /\ prior = <<>>
    /\ raced = FALSE
    /\ resolved = <<>>

\* a tree whose every entry can be read
FreshWith(dateExtractor) == FreshOver(dateExtractor, {})

\* the extractor every entry point of the program constructs
Fresh == FreshWith("exif")

\* OrganizeFiles is about to be called
Start == Fresh /\ mainPc = "start"

Init ==
    /\ cfg \in Configs
    /\ \E S \in SourceChoices, T \in TargetChoices :
          /\ fs = [p \in S \cup T |-> IF p \in S THEN SourceData(p) ELSE TargetData(p)]
          /\ dirs = {SourceRoot, SourceRoot \o <<"sub">>, TargetRoot}
                      \cup (IF T = {} THEN {} ELSE {SubSeq(DirA, 1, k) : k \in 2..Len(DirA)})
          /\ ioFail \in {X \in SUBSET S : Cardinality(X) <= 1}
          /\ mkdirFail \in (IF T = {} THEN {{}, {DirA}} ELSE {{}})
    /\ Start

(***************************************************************************)
(* Date Resolver (EXIFExtractor).                                          *)
(***************************************************************************)
ExtractorExtensions == {".jpg", ".jpeg", ".png", ".tiff", ".tif", ".cr2", ".nef", ".arw", ".dng", ".raw"}

\* what a DateExtractor that also dates video containers accepts
VideoExtractorExtensions == ExtractorExtensions \cup {".mp4", ".mpg"}

\* DateExtractor.SupportsFile of the extractor in use (EXIFExtractor: images)
SupportsFile_OnlyPng(path) == path.ext = ".png"
SupportsFile(path) ==
    path.ext \in (IF extractor = "exif" THEN ExtractorExtensions ELSE VideoExtractorExtensions)

\* os.FileInfo.ModTime and time.Time.Unix: the whole seconds, the rest dropped
ModTime(info) == [sec |-> info.mtime, ns |-> info.ns]
Unix(t) == t.sec

\* EXIFExtractor.getCacheKey: "%s:%d:%d" of path, size, ModTime().Unix()
getCacheKey_PathOnly(path, info) == [path |-> path, size |-> 0, mtime |-> NoDate]
getCacheKey(path, info) ==
    [path |-> path, size |-> info.size, mtime |-> Unix(ModTime(info))]

\* EXIFExtractor.cacheDateWithInfo
cacheDateWithInfo_Drops(c, key, date) == c
cacheDateWithInfo(c, key, date) == (key :> date) @@ c

\* EXIFExtractor.extractWithGoExif: the embedded date, when there is one
extractWithGoExif(info) == info.exif

\* EXIFExtractor.ExtractDate on filesystem f with cache c and counters cs
ExtractDate(f, c, cs, path) ==
    IF ~SupportsFile(path)
    THEN [ok |-> FALSE, date |-> NoDate, cache |-> c, cstats |-> cs]
    ELSE IF path \notin DOMAIN f
    THEN [ok |-> FALSE, date |-> NoDate, cache |-> c, cstats |-> cs]
    ELSE LET info == f[path]
             key == getCacheKey(path, info)
         IN  IF key \in DOMAIN c
             THEN [ok |-> TRUE, date |-> c[key], cache |-> c,
                   cstats |-> [cs EXCEPT !.Hits = @ + 1]]
             ELSE LET date == IF extractWithGoExif(info) /= NoDate
                              THEN extractWithGoExif(info) ELSE info.mtime
                  IN  [ok |-> TRUE, date |-> date, cache |-> cacheDateWithInfo(c, key, date),
                       cstats |-> [cs EXCEPT !.Misses = @ + 1]]

\* FileOrganizer.extractDate: the extractor's answer and the counters it bumps
extractDate(f, c, cs, st, file) ==
    IF ~SupportsFile(file.Path)
    THEN [ok |-> FALSE, date |-> NoDate, cache |-> c, cstats |-> cs, stats |-> st]
    ELSE LET r == ExtractDate(f, c, cs, file.Path)
         IN  [ok |-> r.ok, date |-> r.date, cache |-> r.cache, cstats |-> r.cstats,
              stats |-> IF r.ok THEN Increment(st, "FromEXIF")
                        ELSE Increment(st, "ExtractionErrors")]

(***************************************************************************)
(* Placement Planner and Conflict Resolver helpers.                        *)
(***************************************************************************)
\* FileOrganizer.generateTargetPath
generateTargetPath(c, file, date) ==
    P(GetTargetDirectory(c) \o FormatDate(c.DateFormat, date), file.Path.stem, file.Path.ext)

\* FileOrganizer.fileExistsAtTarget
fileExistsAtTarget(f, sourcePath, targetPath) ==
    IF sourcePath = targetPath THEN FALSE ELSE targetPath \in DOMAIN f

\* the candidate name of generateUniqueFilename: "%s_%d%s"
uniqueName_DropsExtension(basePath, counter) ==
    P(basePath.dir, basePath.stem \o "_" \o ToString(counter), "")
uniqueName(basePath, counter) ==
    P(basePath.dir, basePath.stem \o "_" \o ToString(counter), basePath.ext)

\* first counter of generateUniqueFilename
firstCounter == 1

(***************************************************************************)
(* Filesystem primitives.                                                  *)
(***************************************************************************)
Remove(f, p) == [q \in DOMAIN f \ {p} |-> f[q]]
Put(f, p, data) == [q \in DOMAIN f \cup {p} |-> IF q = p THEN data ELSE f[q]]

\* os.Rename(sourcePath, destPath)
RenameOk(f, d, bad, sourcePath, destPath) ==
    /\ sourcePath \in DOMAIN f
    /\ destPath.dir \in d
    /\ sourcePath \notin bad

RenameResult_KeepsSource(f, sourcePath, destPath) == Put(f, destPath, f[sourcePath])
RenameResult(f, sourcePath, destPath) ==
    IF sourcePath = destPath THEN f
    ELSE Put(Remove(f, sourcePath), destPath, f[sourcePath])

\* FileOrganizer.copyFile: open, create (truncate), io.Copy, stat, chmod
copyFileOk(f, d, bad, sourcePath, destPath) ==
    /\ sourcePath \in DOMAIN f
    /\ destPath.dir \in d
    /\ sourcePath \notin bad
    /\ destPath \notin bad

\* os.Create(destPath): a new empty file, or the existing one truncated
Create(f, destPath) ==
    Put(f, destPath, F(0, NoDate, 0, NowDate,
                       IF destPath \in DOMAIN f THEN f[destPath].mode ELSE CreateMode))

\* io.Copy(destFile, sourceFile): the bytes of the source as they are now
Copy(f, sourcePath, destPath) ==
    Put(f, destPath, [f[destPath] EXCEPT !.content = f[sourcePath].content,
                                         !.exif = f[sourcePath].exif,
                                         !.size = f[sourcePath].size])

\* os.Chmod(destPath, mode)
Chmod(f, destPath, mode) == Put(f, destPath, [f[destPath] EXCEPT !.mode = mode])

copyFileResult_NoChmod(f, sourcePath, destPath) ==
    Copy(Create(f, destPath), sourcePath, destPath)
copyFileResult(f, sourcePath, destPath) ==
    LET f1 == Copy(Create(f, destPath), sourcePath, destPath)
    IN  Chmod(f1, destPath, f1[sourcePath].mode)

\* FileOrganizer.createBackup
backupPath(filePath) == P(filePath.dir, filePath.stem, filePath.ext \o ".backup")

\* FileOrganizer.moveFile: optional backup whose failure is only logged, then rename
moveFileOk(f, d, bad, sourcePath, destPath) == RenameOk(f, d, bad, sourcePath, destPath)

moveFileResult_RenameFirst(c, f, d, bad, sourcePath, destPath) ==
    LET f1 == IF RenameOk(f, d, bad, sourcePath, destPath)
              THEN RenameResult(f, sourcePath, destPath) ELSE f
    IN  IF c.CreateBackups /\ copyFileOk(f1, d, bad, sourcePath, backupPath(sourcePath))
        THEN copyFileResult(f1, sourcePath, backupPath(sourcePath)) ELSE f1
moveFileResult(c, f, d, bad, sourcePath, destPath) ==
    LET f1 == IF c.CreateBackups /\ copyFileOk(f, d, bad, sourcePath, backupPath(sourcePath))
              THEN copyFileResult(f, sourcePath, backupPath(sourcePath)) ELSE f
    IN  IF RenameOk(f1, d, bad, sourcePath, destPath)
        THEN RenameResult(f1, sourcePath, destPath) ELSE f1

\* move or copy, as Processing.MoveFiles says
placeOk(c, f, d, bad, sourcePath, destPath) ==
    IF c.MoveFiles THEN moveFileOk(f, d, bad, sourcePath, destPath)
    ELSE copyFileOk(f, d, bad, sourcePath, destPath)

placeResult(c, f, d, bad, sourcePath, destPath) ==
    IF c.MoveFiles THEN moveFileResult(c, f, d, bad, sourcePath, destPath)
    ELSE IF copyFileOk(f, d, bad, sourcePath, destPath)
         THEN copyFileResult(f, sourcePath, destPath) ELSE f

\* os.MkdirAll: the directory and its missing parents
MkdirAll(d, dirPath) == d \cup {SubSeq(dirPath, 1, k) : k \in 1..Len(dirPath)}

\* Statistics.AddError
AddError(e, filePath, operation) == Append(e, [FilePath |-> filePath, Operation |-> operation])

(***************************************************************************)
(* Discovery.                                                              *)
(***************************************************************************)
\* the FileInfo discoverFiles builds for one walked file
fileInfoOf(f, path) ==
    LET isVideo == IsVideoExtension(path.ext)
        thmPath == P(path.dir, path.stem, ".thm")
        paired == isVideo /\ path.ext = ".mpg" /\ thmPath \in DOMAIN f
    IN  [Path |-> path, Size |-> f[path].size, Extension |-> path.ext,
         IsImage |-> IsImageExtension(path.ext), IsVideo |-> isVideo,
         HasThumbnail |-> paired,
         ThumbnailPath |-> IF paired THEN thmPath ELSE NoPath]

\* MaxFilesPerRun > 0 && len(files) >= MaxFilesPerRun, after the append
limitReached_Strict(max, n) == max > 0 /\ n > max
limitReached(max, n) == max > 0 /\ n >= max

\* the characters of the directory names the model uses
NameChars(name) ==
    CASE name = "2024" -> <<"2", "0", "2", "4">>
      [] name = "2024-13" -> <<"2", "0", "2", "4", "-", "1", "3">>
      [] name = "2024-12-25" -> <<"2", "0", "2", "4", "-", "1", "2", "-", "2", "5">>
      [] name = "2024-12" -> <<"2", "0", "2", "4", "-", "1", "2">>
      [] name = "12" -> <<"1", "2">>
      [] name = "25" -> <<"2", "5">>
      [] name = "sub" -> <<"s", "u", "b">>
      [] OTHER -> <<"s", "r", "c">>

DigitValue(ch) ==
    CASE ch = "0" -> 0 [] ch = "1" -> 1 [] ch = "2" -> 2 [] ch = "3" -> 3 [] ch = "4" -> 4
      [] ch = "5" -> 5 [] ch = "6" -> 6 [] ch = "7" -> 7 [] ch = "8" -> 8 [] ch = "9" -> 9
      [] OTHER -> -1

\* the number written in the n characters of chars from position i, or -1
RECURSIVE number(_, _, _)
number(chars, i, n) ==
    IF n = 0 THEN 0
    ELSE IF i + n - 1 > Len(chars) \/ DigitValue(chars[i + n - 1]) < 0 THEN -1
    ELSE LET rest == number(chars, i, n - 1)
         IN  IF rest < 0 THEN -1 ELSE rest * 10 + DigitValue(chars[i + n - 1])

\* the days of a month, as time.Parse checks the day against them
daysIn(year, month) ==
    IF month = 2
    THEN (IF year % 4 = 0 /\ (year % 100 /= 0 \/ year % 400 = 0) THEN 29 ELSE 28)
    ELSE IF month \in {4, 6, 9, 11} THEN 30 ELSE 31

\* time.Parse(pattern, name) succeeds, for the patterns of isAlreadyOrganized;
\* a pattern with a slash never matches a base name
parses(pattern, chars) ==
    LET year == number(chars, 1, 4)
        month == number(chars, 6, 2)
        day == number(chars, 9, 2)
        dash(i) == i <= Len(chars) /\ chars[i] = "-"
    IN  CASE pattern = "2006" -> Len(chars) = 4 /\ year >= 0
          [] pattern = "2006-01" ->
                Len(chars) = 7 /\ year >= 0 /\ dash(5) /\ month \in 1..12
          [] pattern = "2006-01-02" ->
                /\ Len(chars) = 10 /\ year >= 0 /\ dash(5) /\ month \in 1..12 /\ dash(8)
                /\ day \in 1..daysIn(year, month)
          [] OTHER -> FALSE

\* FileOrganizer.isAlreadyOrganized
isAlreadyOrganized_Never(dirPath) == FALSE
isAlreadyOrganized(dirPath) ==
    \E pattern \in {"2006", "2006-01", "2006/01", "2006-01-02", "2006/01/02"} :
        parses(pattern, NameChars(dirPath[Len(dirPath)]))

\* entry q lies in the subtree of directory dirPath
Under(q, dirPath) ==
    /\ Len(q.dir) >= Len(dirPath)
    /\ SubSeq(q.dir, 1, Len(dirPath)) = dirPath
    /\ q /= Dir(dirPath)

\* the first entry from from on that lies outside the subtree of dirPath
RECURSIVE pastSubtree(_, _)
pastSubtree(dirPath, from) ==
    CHOOSE next \in {IF i > Len(WalkEntries) \/ ~Under(WalkEntries[i], dirPath) THEN i
                     ELSE pastSubtree(dirPath, i + 1) : i \in {from}} : TRUE

\* the callback's "if err != nil { Warnf; return nil }": the walk goes on
accessError_Aborts(acc) == [acc EXCEPT !.err = TRUE]
accessError(acc) == acc

\* the walk from entry from on, with found gathered so far (each bound to its
\* value once per entry): the files appended, the directories scanned and
\* whether filepath.Walk returns an error. An entry that cannot be read
\* (Lstat or ReadDir fails) is passed to the callback with the error and
\* left out, a directory with all below it; filepath.SkipDir leaves out the
\* subtree of an organized directory; filepath.SkipAll ends the walk
RECURSIVE walk(_, _, _, _, _, _)
walk(c, f, d, bad, from, found) ==
    LET visit(i, acc) ==
            IF i > Len(WalkEntries) THEN acc
            ELSE LET p == WalkEntries[i]
                 IN  IF (IsDir(p) /\ p.dir \in d /\ p \in bad) \/ (~IsDir(p) /\ p \in DOMAIN f /\ p \in bad)
                     THEN IF accessError(acc).err THEN accessError(acc)
                          ELSE walk(c, f, d, bad,
                                    IF IsDir(p) THEN pastSubtree(p.dir, i + 1) ELSE i + 1,
                                    accessError(acc))
                     ELSE IF IsDir(p)
                     THEN IF p.dir \notin d THEN walk(c, f, d, bad, pastSubtree(p.dir, i + 1), acc)
                          ELSE LET acc1 == [acc EXCEPT !.scanned = @ + 1]
                               IN  IF c.SkipOrganized /\ isAlreadyOrganized(p.dir)
                                   THEN walk(c, f, d, bad, pastSubtree(p.dir, i + 1), acc1)
                                   ELSE walk(c, f, d, bad, i + 1, acc1)
                     ELSE IF p \in DOMAIN f /\ isSupportedFile(p.ext)
                     THEN LET acc1 == [acc EXCEPT !.files = Append(@, fileInfoOf(f, p))]
                          IN  IF limitReached(c.MaxFilesPerRun, Len(acc1.files)) THEN acc1
                              ELSE walk(c, f, d, bad, i + 1, acc1)
                     ELSE walk(c, f, d, bad, i + 1, acc)
    IN  CHOOSE result \in {visit(i, acc) : i \in {from}, acc \in {found}} : TRUE

\* FileOrganizer.discoverFiles: files, err
discoverFiles(c, f, d, bad) ==
    walk(c, f, d, bad, 1, [files |-> <<>>, scanned |-> 0, err |-> FALSE])

\* NewFileOrganizerWithLogHook: the worker count
foWorkers(c) == IF c.WorkerThreads <= 0 THEN DefaultWorkers ELSE c.WorkerThreads

(***************************************************************************)
(* OrganizeFiles, processFiles / dryRunProcess: main goroutine and feeder. *)
(***************************************************************************)
\* OrganizeFiles up to the spawning of the workers and the feeder
OrganizeFiles ==
    /\ mainPc = "start"
    /\ files' = IF discoverFiles(cfg, fs, dirs, walkFail).err THEN <<>>
                 ELSE discoverFiles(cfg, fs, dirs, walkFail).files
    /\ stats' = [stats EXCEPT !.TotalFilesFound = Len(files'),
                              !.ThumbnailsFound = Cardinality({i \in 1..Len(files') : files'[i].HasThumbnail}),
                              !.DirectoriesScanned = discoverFiles(cfg, fs, dirs, walkFail).scanned]
    /\ IF Len(files') = 0
       THEN /\ mainPc' = IF discoverFiles(cfg, fs, dirs, walkFail).err THEN "failed" ELSE "done"
            /\ wpc' = wpc
       ELSE /\ mainPc' = "wait"
            /\ wpc' = [w \in Workers |-> IF w <= foWorkers(cfg) THEN "recv" ELSE "off"]
    /\ taken' = [i \in 1..Len(files') |-> <<>>]
    /\ UNCHANGED <<cfg, fs, dirs, ioFail, mkdirFail, cache, cstats, errors, finalized,
                   sent, fileChan, closed, wfile, wtarget, wcounter, fs0, dirs0, prior, raced, resolved, extractor, walkFail, plans, server, mutex, caller, calls, summary>>

\* a send on make(chan FileInfo, capacity) proceeds when the buffer has room;
\* with no buffer it proceeds when a worker is waiting in its receive
canSend(capacity, ch) ==
    \/ Len(ch) < capacity
    \/ capacity = 0 /\ ch = <<>> /\ \E w \in Workers : wpc[w] = "recv"

\* the feeder goroutine: fileChan <- file
FeederSend ==
    /\ mainPc = "wait"
    /\ sent < Len(files)
    /\ canSend(cfg.BatchSize, fileChan)
    /\ fileChan' = Append(fileChan, files[sent + 1])
    /\ sent' = sent + 1
    /\ UNCHANGED <<cfg, fs, dirs, ioFail, mkdirFail, cache, cstats, stats, errors, finalized,
                   mainPc, files, closed, wpc, wfile, wtarget, wcounter, taken, fs0, dirs0, prior, raced, resolved, extractor, walkFail, plans, server, mutex, caller, calls, summary>>

\* the feeder goroutine: deferred close(fileChan)
FeederClose ==
    /\ mainPc = "wait"
    /\ sent = Len(files)
    /\ ~closed
    /\ closed' = TRUE
    /\ UNCHANGED <<cfg, fs, dirs, ioFail, mkdirFail, cache, cstats, stats, errors, finalized,
                   mainPc, files, sent, fileChan, wpc, wfile, wtarget, wcounter, taken, fs0, dirs0, prior, raced, resolved, extractor, walkFail, plans, server, mutex, caller, calls, summary>>

\* wg.Wait() returns: every spawned worker has called wg.Done
wgWait_FirstWorker == wpc[1] = "exit"
wgWait == \A w \in Workers : w <= foWorkers(cfg) => wpc[w] = "exit"

\* wg.Wait(); fo.stats.Finalize(); return nil
Finalize ==
    /\ mainPc = "wait"
    /\ wgWait
    /\ finalized' = finalized + 1
    /\ mainPc' = "done"
    /\ UNCHANGED <<cfg, fs, dirs, ioFail, mkdirFail, cache, cstats, stats, errors,
                   files, sent, fileChan, closed, wpc, wfile, wtarget, wcounter, taken, fs0, dirs0, prior, raced, resolved, extractor, walkFail, plans, server, mutex, caller, calls, summary>>

(***************************************************************************)
(* worker / dryRunWorker: for file := range fileChan.                      *)
(***************************************************************************)
indexOf(file) == CHOOSE i \in 1..Len(files) : files[i] = file

\* OrganizeFiles: dry runs go to dryRunProcess, live runs to processFiles
workerEntry_AlwaysLive(c) == "extract"
workerEntry(c) == IF c.DryRun THEN "dryExtract" ELSE "extract"

\* what a receive leaves in the channel
received_NoDequeue(ch) == ch
received(ch) == Tail(ch)

worker(w) ==
    /\ wpc[w] = "recv"
    /\ IF fileChan /= <<>>
       THEN /\ wfile' = [wfile EXCEPT ![w] = Head(fileChan)]
            /\ fileChan' = received(fileChan)
            /\ taken' = [taken EXCEPT ![indexOf(Head(fileChan))] = Append(@, w)]
            /\ wpc' = [wpc EXCEPT ![w] = workerEntry(cfg)]
       ELSE /\ closed
            /\ wpc' = [wpc EXCEPT ![w] = "exit"]
            /\ UNCHANGED <<wfile, fileChan, taken>>
    /\ UNCHANGED <<cfg, fs, dirs, ioFail, mkdirFail, cache, cstats, stats, errors, finalized,
                   mainPc, files, sent, closed, wtarget, wcounter, fs0, dirs0, prior, raced, resolved, extractor, walkFail, plans, server, mutex, caller, calls, summary>>

(***************************************************************************)
(* processFile, one step per filesystem call.                              *)
(***************************************************************************)
back(w) == [wpc EXCEPT ![w] = "recv"]

\* the counters of a file whose date cannot be resolved
noDateOutcome_AlsoError(st) == Increment(Increment(st, "FilesWithoutDates"), "FilesWithErrors")
noDateOutcome(st) == Increment(st, "FilesWithoutDates")

\* the counters of handleDuplicate's skip case
skipOutcome_ForgetsFilesSkipped(st) == Increment(st, "DuplicatesSkipped")
skipOutcome(st) == Increment(Increment(st, "DuplicatesSkipped"), "FilesSkipped")

\* IncrementFilesProcessed, extractDate, generateTargetPath
processFile(w) ==
    /\ wpc[w] = "extract"
    /\ LET file == wfile[w]
           r == extractDate(fs, cache, cstats, Increment(stats, "TotalFilesProcessed"), file)
       IN  /\ cache' = r.cache
           /\ cstats' = r.cstats
           /\ IF ~r.ok
              THEN /\ stats' = noDateOutcome(r.stats)
                   /\ errors' = AddError(errors, file.Path, "date_extraction")
                   /\ wpc' = back(w)
                   /\ UNCHANGED wtarget
                   /\ plans' = (file.Path :> NoPath) @@ plans
              ELSE /\ stats' = r.stats
                   /\ wtarget' = [wtarget EXCEPT ![w] = generateTargetPath(cfg, file, r.date)]
                   /\ wpc' = [wpc EXCEPT ![w] = "exists"]
                   /\ plans' = (file.Path :> generateTargetPath(cfg, file, r.date)) @@ plans
                   /\ UNCHANGED errors
    /\ UNCHANGED <<cfg, fs, dirs, ioFail, mkdirFail, finalized, mainPc, files, sent,
                   fileChan, closed, wfile, wcounter, taken, fs0, dirs0, prior, raced, resolved, extractor, walkFail, server, mutex, caller, calls, summary>>

\* if fo.fileExistsAtTarget(file.Path, targetPath)
processFileExists(w) ==
    /\ wpc[w] = "exists"
    /\ wpc' = [wpc EXCEPT ![w] = IF fileExistsAtTarget(fs, wfile[w].Path, wtarget[w])
                                 THEN "duplicate" ELSE "statDir"]
    /\ raced' = (raced \/ (/\ ~fileExistsAtTarget(fs, wfile[w].Path, wtarget[w])
                            /\ \E v \in Workers \ {w} :
                                  /\ wpc[v] \in {"statDir", "mkdir", "place"}
                                  /\ wtarget[v] = wtarget[w]))
    /\ UNCHANGED <<cfg, fs, dirs, ioFail, mkdirFail, cache, cstats, stats, errors, finalized,
                   mainPc, files, sent, fileChan, closed, wfile, wtarget, wcounter, taken,
                   fs0, dirs0, prior, resolved, extractor, walkFail, plans, server, mutex, caller, calls, summary>>

\* handleDuplicate up to its first filesystem call
handleDuplicate(w) ==
    /\ wpc[w] = "duplicate"
    /\ LET st == Increment(stats, "DuplicatesFound")
           strategy == cfg.DuplicateHandling
       IN  CASE strategy = "skip" ->
                 /\ stats' = skipOutcome(st)
                 /\ wpc' = back(w)
                 /\ UNCHANGED <<errors, wcounter>>
             [] strategy = "overwrite" ->
                 /\ stats' = st
                 /\ wpc' = [wpc EXCEPT ![w] = "dupPlace"]
                 /\ UNCHANGED <<errors, wcounter>>
             [] strategy = "rename" ->
                 /\ stats' = st
                 /\ wcounter' = [wcounter EXCEPT ![w] = firstCounter]
                 /\ wpc' = [wpc EXCEPT ![w] = "probe"]
                 /\ UNCHANGED errors
             [] OTHER ->
                 /\ stats' = Increment(st, "FilesWithErrors")
                 /\ errors' = AddError(errors, wfile[w].Path, "duplicate_handling")
                 /\ wpc' = back(w)
                 /\ UNCHANGED wcounter
    /\ UNCHANGED <<cfg, fs, dirs, ioFail, mkdirFail, cache, cstats, finalized, mainPc, files,
                   sent, fileChan, closed, wfile, wtarget, taken, fs0, dirs0, prior, raced, resolved, extractor, walkFail, plans, server, mutex, caller, calls, summary>>

\* one iteration of generateUniqueFilename's loop: os.Stat(newPath)
probeFree_Inverted(f, newPath) == newPath \in DOMAIN f
probeFree(f, newPath) == newPath \notin DOMAIN f

generateUniqueFilename(w) ==
    /\ wpc[w] = "probe"
    /\ IF probeFree(fs, uniqueName(wtarget[w], wcounter[w]))
       THEN /\ wpc' = [wpc EXCEPT ![w] = "dupPlace"]
            /\ UNCHANGED wcounter
       ELSE /\ wcounter' = [wcounter EXCEPT ![w] = @ + 1]
            /\ UNCHANGED wpc
    /\ UNCHANGED <<cfg, fs, dirs, ioFail, mkdirFail, cache, cstats, stats, errors, finalized,
                   mainPc, files, sent, fileChan, closed, wfile, wtarget, taken, fs0, dirs0, prior, raced, resolved, extractor, walkFail, plans, server, mutex, caller, calls, summary>>

\* the path handleDuplicate moves or copies to
dupDest(w) ==
    IF cfg.DuplicateHandling = "rename" THEN uniqueName(wtarget[w], wcounter[w]) ELSE wtarget[w]

\* handleDuplicate's moveFile / copyFile and processFile's handling of its error
handleDuplicatePlace(w) ==
    /\ wpc[w] = "dupPlace"
    /\ LET src == wfile[w].Path
           dst == dupDest(w)
           ok == placeOk(cfg, fs, dirs, ioFail, src, dst)
           st1 == Increment(stats, IF cfg.MoveFiles THEN "FilesMoved" ELSE "FilesCopied")
       IN  /\ fs' = placeResult(cfg, fs, dirs, ioFail, src, dst)
           /\ IF ok
              THEN /\ stats' = IF cfg.DuplicateHandling = "rename"
                               THEN Increment(st1, "DuplicatesRenamed") ELSE st1
                   /\ UNCHANGED errors
              ELSE /\ stats' = Increment(stats, "FilesWithErrors")
                   /\ errors' = AddError(errors, src, "duplicate_handling")
    /\ wpc' = back(w)
    /\ wcounter' = [wcounter EXCEPT ![w] = 0]
    /\ UNCHANGED <<cfg, dirs, ioFail, mkdirFail, cache, cstats, finalized, mainPc, files,
                   sent, fileChan, closed, wfile, wtarget, taken, fs0, dirs0, prior, raced, resolved, extractor, walkFail, plans, server, mutex, caller, calls, summary>>

\* createDirectory: os.Stat(dirPath)
createDirectory(w) ==
    /\ wpc[w] = "statDir"
    /\ wpc' = [wpc EXCEPT ![w] = IF wtarget[w].dir \in dirs THEN "place" ELSE "mkdir"]
    /\ UNCHANGED <<cfg, fs, dirs, ioFail, mkdirFail, cache, cstats, stats, errors, finalized,
                   mainPc, files, sent, fileChan, closed, wfile, wtarget, wcounter, taken,
                   fs0, dirs0, prior, raced, resolved, extractor, walkFail, plans, server, mutex, caller, calls, summary>>

\* createDirectory: os.MkdirAll(dirPath, 0755) and IncrementDirectoriesCreated
createDirectoryMkdir(w) ==
    /\ wpc[w] = "mkdir"
    /\ IF wtarget[w].dir \in mkdirFail
       THEN /\ stats' = Increment(stats, "FilesWithErrors")
            /\ errors' = AddError(errors, wfile[w].Path, "directory_creation")
            /\ wpc' = back(w)
            /\ UNCHANGED dirs
       ELSE /\ dirs' = MkdirAll(dirs, wtarget[w].dir)
            /\ stats' = Increment(stats, "DirectoriesCreated")
            /\ wpc' = [wpc EXCEPT ![w] = "place"]
            /\ UNCHANGED errors
    /\ UNCHANGED <<cfg, fs, ioFail, mkdirFail, cache, cstats, finalized, mainPc, files, sent,
                   fileChan, closed, wfile, wtarget, wcounter, taken, fs0, dirs0, prior, raced, resolved, extractor, walkFail, plans, server, mutex, caller, calls, summary>>

\* processThumbnail: the thumbnail goes next to the placed file
thumbnailTarget(videoTargetPath) == P(videoTargetPath.dir, videoTargetPath.stem, ".thm")

\* moveFile / copyFile of the file, processThumbnail, IncrementFilesOrganized
processFilePlace(w) ==
    /\ wpc[w] = "place"
    /\ LET file == wfile[w]
           src == file.Path
           dst == wtarget[w]
           ok == cfg.DryRun \/ placeOk(cfg, fs, dirs, ioFail, src, dst)
           fs1 == IF cfg.DryRun THEN fs ELSE placeResult(cfg, fs, dirs, ioFail, src, dst)
           st1 == IF cfg.DryRun THEN stats
                  ELSE Increment(stats, IF cfg.MoveFiles THEN "FilesMoved" ELSE "FilesCopied")
           thm == file.ThumbnailPath
           thmOk == placeOk(cfg, fs1, dirs, ioFail, thm, thumbnailTarget(dst))
       IN  IF ~ok
           THEN /\ fs' = fs1
                /\ stats' = Increment(stats, "FilesWithErrors")
                /\ errors' = AddError(errors, src, IF cfg.MoveFiles THEN "move_file" ELSE "copy_file")
           ELSE /\ fs' = IF file.HasThumbnail
                         THEN placeResult(cfg, fs1, dirs, ioFail, thm, thumbnailTarget(dst))
                         ELSE fs1
                /\ errors' = IF file.HasThumbnail /\ ~thmOk
                             THEN AddError(errors, thm, "thumbnail_processing") ELSE errors
                /\ stats' = [Increment(st1, "FilesOrganized") EXCEPT !.BytesProcessed = @ + file.Size]
    /\ wpc' = back(w)
    /\ UNCHANGED <<cfg, dirs, ioFail, mkdirFail, cache, cstats, finalized, mainPc, files, sent,
                   fileChan, closed, wfile, wtarget, wcounter, taken, fs0, dirs0, prior, raced, resolved, extractor, walkFail, plans, server, mutex, caller, calls, summary>>

(***************************************************************************)
(* processDryRunFile.                                                      *)
(***************************************************************************)
\* IncrementFilesProcessed, extractDate, generateTargetPath
processDryRunFile(w) ==
    /\ wpc[w] = "dryExtract"
    /\ LET file == wfile[w]
           r == extractDate(fs, cache, cstats, Increment(stats, "TotalFilesProcessed"), file)
       IN  /\ cache' = r.cache
           /\ cstats' = r.cstats
           /\ IF ~r.ok
              THEN /\ stats' = noDateOutcome(r.stats)
                   /\ wpc' = back(w)
                   /\ UNCHANGED wtarget
                   /\ plans' = (file.Path :> NoPath) @@ plans
              ELSE /\ stats' = r.stats
                   /\ wtarget' = [wtarget EXCEPT ![w] = generateTargetPath(cfg, file, r.date)]
                   /\ wpc' = [wpc EXCEPT ![w] = "dryExists"]
                   /\ plans' = (file.Path :> generateTargetPath(cfg, file, r.date)) @@ plans
    /\ UNCHANGED <<cfg, fs, dirs, ioFail, mkdirFail, errors, finalized, mainPc, files, sent,
                   fileChan, closed, wfile, wcounter, taken, fs0, dirs0, prior, raced, resolved, extractor, walkFail, server, mutex, caller, calls, summary>>

\* fileExistsAtTarget and the counter of the action that would be taken
processDryRunFileExists(w) ==
    /\ wpc[w] = "dryExists"
    /\ stats' = IF fileExistsAtTarget(fs, wfile[w].Path, wtarget[w])
                THEN Increment(stats, "DuplicatesFound")
                ELSE Increment(stats, "FilesOrganized")
    /\ wpc' = back(w)
    /\ UNCHANGED <<cfg, fs, dirs, ioFail, mkdirFail, cache, cstats, errors, finalized, mainPc,
                   files, sent, fileChan, closed, wfile, wtarget, wcounter, taken, fs0, dirs0,
                   prior, raced, resolved, extractor, walkFail, plans, server, mutex, caller, calls, summary>>

(***************************************************************************)
(* A live run over the same tree after a dry run (test_organizer.go,       *)
(* testDryRunMode): new Statistics, new organizer, same extractor.         *)
(***************************************************************************)
Rerun ==
    /\ mainPc = "done"
    /\ cfg.DryRun
    /\ prior = <<>>
    /\ prior' = Append(prior, [stats |-> stats, finalized |-> finalized, plans |-> plans])
    /\ plans' = <<>>
    /\ cfg' = [cfg EXCEPT !.DryRun = FALSE]
    /\ stats' = NewStatistics
    /\ errors' = <<>>
    /\ finalized' = 0
    /\ mainPc' = "start"
    /\ files' = <<>>
    /\ sent' = 0
    /\ fileChan' = <<>>
    /\ closed' = FALSE
    /\ wpc' = [w \in Workers |-> "off"]
    /\ wfile' = [w \in Workers |-> NoFile]
    /\ wtarget' = [w \in Workers |-> NoPath]
    /\ taken' = <<>>
    /\ fs0' = fs
    /\ dirs0' = dirs
    /\ raced' = FALSE
    /\ UNCHANGED <<fs, dirs, ioFail, mkdirFail, cache, cstats, wcounter, resolved, extractor, walkFail, server, mutex, caller, calls, summary>>

Next ==
    \/ OrganizeFiles
    \/ FeederSend
    \/ FeederClose
    \/ Finalize
    \/ Rerun
    \/ \E w \in Workers : worker(w)
    \/ \E w \in Workers : processFile(w)
    \/ \E w \in Workers : processFileExists(w)
    \/ \E w \in Workers : handleDuplicate(w)
    \/ \E w \in Workers : generateUniqueFilename(w)
    \/ \E w \in Workers : handleDuplicatePlace(w)
    \/ \E w \in Workers : createDirectory(w)
    \/ \E w \in Workers : createDirectoryMkdir(w)
    \/ \E w \in Workers : processFilePlace(w)
    \/ \E w \in Workers : processDryRunFile(w)
    \/ \E w \in Workers : processDryRunFileExists(w)

Spec == Init /\ [][Next]_vars

(***************************************************************************)
(* Runs with Security.MaxFilesPerRun set, over trees that also hold a file *)
(* of an unsupported type.                                                 *)
(***************************************************************************)
MaxLimit == 2
MaxLimitFiles == 4

LimitSourceChoices ==
    {S \in SUBSET {WalkEntries[i] : i \in {j \in 1..Len(WalkEntries) :
                                             /\ ~IsDir(WalkEntries[j])
                                             /\ WalkEntries[j].dir \in {SourceRoot, SourceRoot \o <<"sub">>}}} :
        Cardinality(S) <= MaxLimitFiles}

LimitConfigs ==
    [SourceDirectory : {SourceRoot}, TargetDirectory : {TargetRoot},
     DateFormat : {"2006/01/02"}, MoveFiles : {TRUE},
     DuplicateHandling : {"rename"}, CreateBackups : {FALSE},
     DryRun : DryRunChoices, WorkerThreads : 1..MaxWorkers,
     BatchSize : {MaxBatch}, MaxFilesPerRun : 0..MaxLimit, SkipOrganized : {TRUE}]

InitLimit ==
    /\ cfg \in LimitConfigs
    /\ \E S \in LimitSourceChoices :
          fs = [p \in S |-> IF p = SrcTxt THEN F(7, NoDate, 1, DateA, CreateMode)
                            ELSE SourceData(p)]
    /\ dirs = {SourceRoot, SourceRoot \o <<"sub">>, TargetRoot}
    /\ ioFail = {}
    /\ mkdirFail = {}
    /\ Start

SpecLimit == InitLimit /\ [][Next]_vars

(***************************************************************************)
(* Runs during which something outside the program removes source files:   *)
(* the os.Stat of ExtractDate and the os.Rename / os.Open of the placement *)
(* then fail for a file that discovery had listed.                         *)
(***************************************************************************)
InitVanish ==
    /\ cfg \in [SourceDirectory : {SourceRoot}, TargetDirectory : {TargetRoot},
                 DateFormat : {"2006/01/02"}, MoveFiles : MoveChoices,
                 DuplicateHandling : {"rename"}, CreateBackups : {FALSE},
                 DryRun : DryRunChoices, WorkerThreads : 1..MaxWorkers,
                 BatchSize : {MaxBatch}, MaxFilesPerRun : {0}, SkipOrganized : {TRUE}]
    /\ \E S \in SourceChoices : fs = [p \in S |-> SourceData(p)]
    /\ dirs = {SourceRoot, SourceRoot \o <<"sub">>, TargetRoot}
    /\ ioFail = {}
    /\ mkdirFail = {}
    /\ Start

\* a listed file is removed from outside while the workers run
ExternalRemove ==
    /\ mainPc = "wait"
    /\ \E p \in DOMAIN fs :
          /\ SubSeq(p.dir, 1, 1) = SourceRoot
          /\ fs' = Remove(fs, p)
    /\ UNCHANGED <<cfg, dirs, ioFail, mkdirFail, cache, cstats, stats, errors, finalized,
                   mainPc, files, sent, fileChan, closed, wpc, wfile, wtarget, wcounter,
                   taken, fs0, dirs0, prior, raced, resolved, extractor, walkFail, plans, server, mutex, caller, calls, summary>>

NextVanish == Next \/ ExternalRemove

SpecVanish == InitVanish /\ [][NextVanish]_vars


(***************************************************************************)
(* Properties.                                                             *)
(***************************************************************************)
Live == ~cfg.DryRun
NoFault == ioFail = {} /\ mkdirFail = {}
Outcomes(st) == st.FilesOrganized + st.FilesSkipped + st.FilesWithErrors + st.FilesWithoutDates

\* C1: every discovered file is dequeued by exactly one worker exactly once,
\* never twice at any moment of the run, and when the run has ended
\* TotalFilesProcessed equals the number of discovered files.
C1_ProcessedExactlyOnce ==
    /\ \A i \in DOMAIN taken : Len(taken[i]) <= 1
    /\ mainPc = "done" =>
          /\ \A i \in DOMAIN taken : Len(taken[i]) = 1
          /\ stats.TotalFilesProcessed = Len(files)

C1_Witness ==
    /\ mainPc = "done"
    /\ Len(files) = 2
    /\ taken[1] = <<2>>
    /\ taken[2] = <<1>>

\* C2: after Finalize, TotalFilesProcessed equals FilesOrganized +
\* FilesSkipped + FilesWithErrors + FilesWithoutDates.
C2_TotalsAfterFinalize ==
    finalized >= 1 => stats.TotalFilesProcessed = Outcomes(stats)

\* C3: in every reachable state the four outcome counters together never
\* exceed TotalFilesFound.
C3_OutcomesWithinFound == Outcomes(stats) <= stats.TotalFilesFound

C3_Witness ==
    /\ stats.TotalFilesFound = 2
    /\ stats.FilesWithErrors = 1
    /\ stats.FilesOrganized = 1
    /\ mainPc = "done"

\* C4: in every completed run Finalize has executed exactly once.
C4_FinalizeExactlyOnce == mainPc = "done" => finalized = 1

\* C5: a dry run mutates nothing: the files with their data and the
\* directories are, at every moment of the run, those the run started with.
C5_DryRunFrame == cfg.DryRun => (fs = fs0 /\ dirs = dirs0)

C5_Witness ==
    /\ cfg.DryRun
    /\ mainPc = "done"
    /\ stats.FilesOrganized = 2
    /\ cfg.MoveFiles
    /\ DirA \notin dirs
    /\ {SrcA, SrcSubA} \subseteq DOMAIN fs

\* C6: the live run that follows a dry run over the same tree with the same
\* configuration reports the FilesOrganized count the dry run reported
\* (no operation being refused by the OS).
C6_DryRunPredictsLive ==
    (prior /= <<>> /\ mainPc = "done" /\ NoFault) =>
        stats.FilesOrganized = prior[1].stats.FilesOrganized

\* the scenario of C7: exactly two candidates plan to the same, free,
\* destination, whose _1 name is free and wanted by nobody else
TwoToSameDestination ==
    /\ Live /\ cfg.DuplicateHandling = "rename" /\ NoFault
    /\ {SrcA, SrcSubA} \subseteq DOMAIN fs0
    /\ DOMAIN fs0 \cap {SrcA1, TgtA, TgtA1} = {}
    /\ mainPc = "done"

BothPlaced ==
    /\ {TgtA, TgtA1} \subseteq DOMAIN fs
    /\ {fs[TgtA].content, fs[TgtA1].content} = {SourceData(SrcA).content, SourceData(SrcSubA).content}
    /\ stats.DuplicatesFound = 1
    /\ stats.DuplicatesRenamed = 1

Leaves(w, pc) == wpc[w] = pc /\ wpc'[w] /= pc

\* C8: with strategy skip, a file whose destination exists and differs from
\* its source is handled without any change on disk, in every step from its
\* dequeue on, and handleDuplicate adds one to exactly DuplicatesFound,
\* DuplicatesSkipped and FilesSkipped, every other counter being unchanged.
C8_SkipLeavesAllUnchanged ==
    [][\A w \in Workers :
          /\ (Leaves(w, "extract") \/ Leaves(w, "exists")) =>
                /\ fs' = fs /\ dirs' = dirs
                /\ stats'.FilesMoved = stats.FilesMoved
                /\ stats'.FilesCopied = stats.FilesCopied
                /\ stats'.FilesOrganized = stats.FilesOrganized
          /\ wpc'[w] = "duplicate" =>
                /\ wfile'[w].Path /= wtarget'[w]
                /\ wpc[w] /= "duplicate" => wtarget'[w] \in DOMAIN fs
          /\ (Leaves(w, "duplicate") /\ cfg.DuplicateHandling = "skip") =>
                /\ fs' = fs /\ dirs' = dirs
                /\ wpc'[w] = "recv"
                /\ stats' = [stats EXCEPT !.DuplicatesFound = @ + 1,
                                          !.DuplicatesSkipped = @ + 1,
                                          !.FilesSkipped = @ + 1]]_vars

C8_Witness ==
    /\ Live /\ cfg.DuplicateHandling = "skip"
    /\ mainPc = "done"
    /\ stats.DuplicatesSkipped = 1
    /\ stats.FilesSkipped = 1
    /\ fs = fs0

Suffixed(p, n) == [dir |-> p.dir, stem |-> p.stem \o "_" \o ToString(n), ext |-> p.ext]

\* C10: with strategy rename, probing starts at name_1.ext, goes on to the
\* next N only past a path at which a file exists when probed, and stops at
\* the first path at which none exists: that path is the one the file is
\* moved or copied to, and the file at the base name is left as it was.
C10_RenameProbesInOrder ==
    [][\A w \in Workers :
          /\ (wpc[w] /= "probe" /\ wpc'[w] = "probe") => wcounter'[w] = 1
          /\ (wpc[w] = "probe" /\ wpc'[w] = "probe" /\ wcounter'[w] /= wcounter[w]) =>
                /\ Suffixed(wtarget[w], wcounter[w]) \in DOMAIN fs
                /\ wcounter'[w] = wcounter[w] + 1
          /\ Leaves(w, "probe") =>
                /\ wpc'[w] = "dupPlace"
                /\ wcounter[w] >= 1
                /\ Suffixed(wtarget[w], wcounter[w]) \notin DOMAIN fs
                /\ wcounter'[w] = wcounter[w] /\ wtarget'[w] = wtarget[w]
          /\ (Leaves(w, "dupPlace") /\ cfg.DuplicateHandling = "rename") =>
                /\ wtarget[w] \in DOMAIN fs =>
                      (wtarget[w] \in DOMAIN fs' /\ fs'[wtarget[w]] = fs[wtarget[w]])
                /\ (wfile[w].Path \in DOMAIN fs /\ wfile[w].Path \notin ioFail) =>
                      /\ Suffixed(wtarget[w], wcounter[w]) \in DOMAIN fs'
                      /\ fs'[Suffixed(wtarget[w], wcounter[w])].content = fs[wfile[w].Path].content]_vars

C10_Witness ==
    \E w \in Workers :
       /\ wpc[w] = "recv"
       /\ cfg.DuplicateHandling = "rename"
       /\ wfile[w].Path = SrcA
       /\ {TgtA, TgtA1} \subseteq DOMAIN fs0
       /\ Suffixed(TgtA, 2) \in DOMAIN fs
       /\ fs[Suffixed(TgtA, 2)].content = SourceData(SrcA).content
       /\ fs[TgtA] = fs0[TgtA]

\* the entries of the error list that are about a candidate file itself
fileErrors == {i \in 1..Len(errors) : errors[i].Operation /= "thumbnail_processing"}

\* C11: a run always ends with every candidate processed, and every candidate
\* that failed (counted in FilesWithErrors or FilesWithoutDates) has an entry
\* with its path and an operation tag in the error list.
C11_FailuresRecorded ==
    mainPc = "done" =>
        /\ stats.TotalFilesProcessed = Len(files)
        /\ Cardinality(fileErrors) = stats.FilesWithErrors + stats.FilesWithoutDates
        /\ \A i \in 1..Len(files) :
              ~SupportsFile(files[i].Path) =>
                  \E k \in fileErrors : /\ errors[k].FilePath = files[i].Path
                                        /\ errors[k].Operation /= ""

\* C12: the step in which a candidate's date resolution fails, in a live or
\* a simulated run, adds one to FilesWithoutDates, appends exactly one entry
\* with the file's path and the tag date_extraction to the error list, and
\* neither moves, copies nor counts the file as organized.
C12_NoDateRecorded ==
    [][\A w \in Workers :
          ((Leaves(w, "extract") \/ Leaves(w, "dryExtract")) /\ wpc'[w] = "recv") =>
             /\ stats'.FilesWithoutDates = stats.FilesWithoutDates + 1
             /\ errors' = Append(errors, [FilePath |-> wfile[w].Path,
                                          Operation |-> "date_extraction"])
             /\ fs' = fs
             /\ stats'.FilesOrganized = stats.FilesOrganized
             /\ stats'.FilesMoved = stats.FilesMoved
             /\ stats'.FilesCopied = stats.FilesCopied]_vars

\* the date and the destination spec section 4 plans for a file with data info
plannedDate(info) == IF info.exif /= NoDate THEN info.exif ELSE info.mtime
plannedDestination(path, info) ==
    [dir |-> TargetRoot \o <<ToString(plannedDate(info).y), ToString(plannedDate(info).m),
                             ToString(plannedDate(info).d)>>,
     stem |-> path.stem, ext |-> path.ext]

reachable == {p \in DOMAIN fs0 : SubSeq(p.dir, 1, 1) = SourceRoot /\ isSupportedFile(p.ext)}
returned == {files[i].Path : i \in 1..Len(files)}
Min(a, b) == IF a <= b THEN a ELSE b

\* C20: once discovery has run, with MaxFilesPerRun > 0 it has returned
\* exactly min(MaxFilesPerRun, number of supported reachable files) distinct
\* supported files and with MaxFilesPerRun = 0 all of them; a file that was
\* not returned is never held by a worker, never in the channel, never
\* counted, never named in the error list and stays on disk as it was.
C20_DiscoveryLimit ==
    mainPc /= "start" =>
        /\ cfg.MaxFilesPerRun > 0 =>
              Len(files) = Min(cfg.MaxFilesPerRun, Cardinality(reachable))
        /\ cfg.MaxFilesPerRun = 0 => returned = reachable
        /\ Cardinality(returned) = Len(files)
        /\ returned \subseteq reachable
        /\ stats.TotalFilesFound = Len(files)
        /\ stats.TotalFilesProcessed <= Len(files)
        /\ Outcomes(stats) <= Len(files)
        /\ \A w \in Workers : wfile[w] /= NoFile => wfile[w].Path \in returned
        /\ \A i \in 1..Len(fileChan) : fileChan[i].Path \in returned
        /\ \A i \in 1..Len(errors) : errors[i].FilePath \in returned
        /\ \A p \in DOMAIN fs0 \ returned : p \in DOMAIN fs /\ fs[p] = fs0[p]

C20_Witness ==
    /\ mainPc = "done" /\ Live
    /\ cfg.MaxFilesPerRun = 2
    /\ Cardinality(reachable) = 3
    /\ SrcTxt \in DOMAIN fs0
    /\ returned = {SrcA, SrcA1}
    /\ stats.TotalFilesProcessed = 2
    /\ SrcSubA \in DOMAIN fs

\* a step that counts the file held by worker w as without date
CountsWithoutDate(w) ==
    /\ Leaves(w, "extract") \/ Leaves(w, "dryExtract")
    /\ stats'.FilesWithoutDates /= stats.FilesWithoutDates

\* C13 as claimed: FilesWithoutDates changes only in the step that resolves
\* the date of a candidate whose extension is outside the extractor's
\* supported set.
C13_OnlyUnsupported ==
    [][/\ stats'.FilesWithoutDates /= stats.FilesWithoutDates =>
             (mainPc' = "start" \/ \E w \in Workers : CountsWithoutDate(w))
       /\ \A w \in Workers :
             CountsWithoutDate(w) => wfile[w].Path.ext \notin ExtractorExtensions]_vars

\* C13 amended: FilesWithoutDates changes only in the step that resolves the
\* date of a candidate whose extension is outside the extractor's supported
\* set or whose os.Stat fails because the file is no longer there; a
\* candidate with a supported extension that exists when resolved is never
\* counted as without date.
C13_OnlyUnsupportedOrGone ==
    [][/\ stats'.FilesWithoutDates /= stats.FilesWithoutDates =>
             (mainPc' = "start" \/ \E w \in Workers : CountsWithoutDate(w))
       /\ \A w \in Workers :
             /\ CountsWithoutDate(w) =>
                   /\ stats'.FilesWithoutDates = stats.FilesWithoutDates + 1
                   /\ \/ wfile[w].Path.ext \notin ExtractorExtensions
                      \/ wfile[w].Path \notin DOMAIN fs
             /\ (/\ Leaves(w, "extract") \/ Leaves(w, "dryExtract")
                 /\ wfile[w].Path.ext \in ExtractorExtensions
                 /\ wfile[w].Path \in DOMAIN fs) =>
                   stats'.FilesWithoutDates = stats.FilesWithoutDates]_vars

C13_Witness ==
    /\ mainPc = "done"
    /\ returned = {SrcA, SrcSubA}
    /\ SrcA \notin DOMAIN fs
    /\ stats.FilesWithoutDates = 1
    /\ stats.ExtractionErrors = 1
    /\ stats.FilesOrganized = 1
    /\ stats.FromEXIF = 1

(***************************************************************************)
(* One extractor used directly: ExtractDate calls on files whose size,     *)
(* modification time and embedded date change between the calls.           *)
(***************************************************************************)
MaxCalls == 3

CacheFiles == {SrcA, SrcSubA, SrcV}

InitCache ==
    /\ cfg \in [SourceDirectory : {SourceRoot}, TargetDirectory : {TargetRoot},
                DateFormat : {"2006/01/02"}, MoveFiles : {TRUE},
                DuplicateHandling : {"rename"}, CreateBackups : {FALSE},
                DryRun : {TRUE}, WorkerThreads : {1}, BatchSize : {1},
                MaxFilesPerRun : {0}, SkipOrganized : {TRUE}]
    /\ \E q \in CacheFiles : fs = [p \in {q} |-> SourceData(p)]
    /\ dirs = {SourceRoot, SourceRoot \o <<"sub">>, TargetRoot}
    /\ ioFail = {}
    /\ mkdirFail = {}
    /\ Start

CacheFrame ==
    UNCHANGED <<cfg, dirs, ioFail, mkdirFail, stats, errors, finalized, mainPc, files, sent,
                fileChan, closed, wpc, wfile, wtarget, wcounter, taken, fs0, dirs0, prior,
                raced, extractor, walkFail, plans, server, mutex, caller, calls, summary>>

\* dateExtractor.ExtractDate(path), with what it saw and what it answered
Resolve ==
    /\ Len(resolved) < MaxCalls
    /\ \E p \in DOMAIN fs :
          LET r == ExtractDate(fs, cache, cstats, p)
          IN  /\ cache' = r.cache
              /\ cstats' = r.cstats
              /\ resolved' = Append(resolved,
                                [path |-> p, info |-> fs[p], ok |-> r.ok, date |-> r.date,
                                 before |-> cstats, after |-> r.cstats])
    /\ fs' = fs
    /\ CacheFrame

\* os.Chtimes to another day
Touch ==
    /\ \E p \in DOMAIN fs, t \in {DateA, DateB} :
          /\ t /= fs[p].mtime
          /\ fs' = [fs EXCEPT ![p].mtime = t]
    /\ UNCHANGED <<cache, cstats, resolved, extractor, walkFail, plans, server, mutex, caller, calls, summary>>
    /\ CacheFrame

\* os.Chtimes within the same second
TouchSubSecond ==
    /\ \E p \in DOMAIN fs : fs' = [fs EXCEPT ![p].ns = 1 - @]
    /\ UNCHANGED <<cache, cstats, resolved, extractor, walkFail, plans, server, mutex, caller, calls, summary>>
    /\ CacheFrame

\* the file grows or shrinks by a byte
Resize ==
    /\ \E p \in DOMAIN fs : fs' = [fs EXCEPT ![p].size = 3 - @, ![p].content = 10 - @]
    /\ UNCHANGED <<cache, cstats, resolved, extractor, walkFail, plans, server, mutex, caller, calls, summary>>
    /\ CacheFrame

\* the embedded date is rewritten in place, size and mtime restored
Retag ==
    /\ \E p \in DOMAIN fs :
          fs' = [fs EXCEPT ![p].exif = IF @ = DateB THEN SourceData(p).exif ELSE DateB]
    /\ UNCHANGED <<cache, cstats, resolved, extractor, walkFail, plans, server, mutex, caller, calls, summary>>
    /\ CacheFrame

NextCache == Resolve \/ Touch \/ TouchSubSecond \/ Resize \/ Retag

SpecCache == InitCache /\ [][NextCache]_vars

\* call j was answered from the cache / by extraction
Hit(j) == /\ resolved[j].after.Hits = resolved[j].before.Hits + 1
          /\ resolved[j].after.Misses = resolved[j].before.Misses
Miss(j) == /\ resolved[j].after.Misses = resolved[j].before.Misses + 1
           /\ resolved[j].after.Hits = resolved[j].before.Hits

\* C14: of two successful resolves of the same path that saw the same size
\* and the same modification time, the later one is a cache hit (hits plus
\* one, misses unchanged) and returns the date the earlier one returned.
C14_SecondResolveHits ==
    \A i, j \in 1..Len(resolved) :
        (/\ i < j
         /\ resolved[i].path = resolved[j].path
         /\ resolved[i].ok /\ resolved[j].ok
         /\ resolved[i].info.size = resolved[j].info.size
         /\ resolved[i].info.mtime = resolved[j].info.mtime
         /\ resolved[i].info.ns = resolved[j].info.ns) =>
            /\ Hit(j)
            /\ resolved[j].date = resolved[i].date

C14_Witness ==
    /\ Len(resolved) = 2
    /\ resolved[1].path = SrcA /\ resolved[2].path = SrcA
    /\ resolved[1].info.exif = DateA /\ resolved[2].info.exif = DateB
    /\ resolved[1].info.size = resolved[2].info.size
    /\ resolved[1].info.mtime = resolved[2].info.mtime
    /\ resolved[1].info.ns = resolved[2].info.ns
    /\ Miss(1) /\ Hit(2)
    /\ resolved[2].date = DateA

\* the resolve of resolved[j].path before call j, or 0
RECURSIVE previousResolve(_, _)
previousResolve(j, i) ==
    IF i = 0 THEN 0
    ELSE IF resolved[i].path = resolved[j].path THEN i ELSE previousResolve(j, i - 1)

\* C15 as claimed: a cache hit returns an entry stored by an earlier resolve
\* that saw the same size and the same modification time, and a resolve
\* that follows a resolve of the same path after the size or the
\* modification time changed is a miss.
C15_AnyChangeMisses ==
    \A j \in 1..Len(resolved) :
        /\ (resolved[j].ok /\ Hit(j)) =>
              \E i \in 1..(j - 1) :
                 /\ resolved[i].path = resolved[j].path /\ Miss(i)
                 /\ resolved[i].info.size = resolved[j].info.size
                 /\ ModTime(resolved[i].info) = ModTime(resolved[j].info)
        /\ LET i == previousResolve(j, j - 1)
           IN  (/\ i /= 0 /\ resolved[j].ok
                /\ \/ resolved[i].info.size /= resolved[j].info.size
                   \/ ModTime(resolved[i].info) /= ModTime(resolved[j].info)) => Miss(j)

\* call j sees a size and whole-second modification time under which its
\* path was resolved before
SeenBefore(j) ==
    \E i \in 1..(j - 1) :
       /\ resolved[i].path = resolved[j].path
       /\ resolved[i].info.size = resolved[j].info.size
       /\ Unix(ModTime(resolved[i].info)) = Unix(ModTime(resolved[j].info))

\* C15 amended: a cache hit returns the date stored by an earlier miss on
\* the same path that saw the same size and the same modification time in
\* whole seconds; a resolve that sees a size or a whole-second modification
\* time under which the path was not resolved before is a miss, and one that
\* differs from an earlier resolve only within the second is a hit.
C15_WholeSecondChangeMisses ==
    \A j \in 1..Len(resolved) :
        resolved[j].ok =>
           /\ Hit(j) \/ Miss(j)
           /\ Hit(j) =>
                 \E i \in 1..(j - 1) :
                    /\ resolved[i].path = resolved[j].path /\ Miss(i)
                    /\ resolved[i].info.size = resolved[j].info.size
                    /\ Unix(ModTime(resolved[i].info)) = Unix(ModTime(resolved[j].info))
                    /\ resolved[j].date = resolved[i].date
           /\ ~SeenBefore(j) => Miss(j)
           /\ SeenBefore(j) => Hit(j)

C15_Witness ==
    /\ Len(resolved) = 3
    /\ \A j \in 1..3 : resolved[j].path = SrcSubA
    /\ resolved[2].info.ns /= resolved[1].info.ns
    /\ resolved[2].info.mtime = resolved[1].info.mtime
    /\ resolved[3].info.mtime /= resolved[2].info.mtime
    /\ resolved[3].info.size = resolved[1].info.size
    /\ Miss(1) /\ Hit(2) /\ Miss(3)
    /\ resolved[3].date = DateB

(***************************************************************************)
(* Config.Validate, as LoadConfig applies it before anything runs.         *)
(***************************************************************************)
MissingRoot == <<"nowhere">>

\* config.isValidPath: not empty, exists, is a directory
isValidPath(d, path) == path /= <<>> /\ path \in d

\* time.Time.Format as text, for the layouts the model uses; a layout
\* without any reference-time element comes back unchanged
FormatText(layout, date) ==
    CASE layout = "2006/01/02" -> ToString(date.y) \o "/" \o ToString(date.m) \o "/" \o ToString(date.d)
      [] layout = "2006/01" -> ToString(date.y) \o "/" \o ToString(date.m)
      [] layout = "2006-01-02" -> ToString(date.y) \o "-" \o ToString(date.m) \o "-" \o ToString(date.d)
      [] layout = "2006" -> ToString(date.y)
      [] OTHER -> layout

\* testTime of Validate
TestTime == [y |-> 2023, m |-> 12, d |-> 25]

\* strings.ToLower on the texts the model uses
ToLower(text) ==
    CASE text = "WARN" -> "warn"
      [] text = "Rename" -> "rename"
      [] OTHER -> text

\* validStrategies[c.Processing.DuplicateHandling]
validStrategy_Any(strategy) == TRUE
validStrategy(strategy) == strategy \in {"rename", "skip", "overwrite"}

validLogLevel(level) == ToLower(level) \in {"debug", "info", "warn", "error"}

DefaultDateFormat == "2006/01/02"

\* Config.Validate over the directories d: the error it returns ("" for nil)
\* and the configuration as it leaves it
Validate(c, d) ==
    LET c1 == IF c.DateFormat = "" THEN [c EXCEPT !.DateFormat = DefaultDateFormat] ELSE c
        c2 == [c1 EXCEPT !.BatchSize = IF @ <= 0 THEN 100 ELSE @,
                         !.WorkerThreads = IF @ <= 0 THEN DefaultWorkers ELSE @,
                         !.CacheSize = IF @ <= 0 THEN 1000 ELSE @]
    IN  IF c.SourceDirectory = <<>>
        THEN [err |-> "source_directory is required", cfg |-> c]
        ELSE IF ~isValidPath(d, c.SourceDirectory)
        THEN [err |-> "source_directory does not exist", cfg |-> c]
        ELSE IF c.TargetDirectory /= NilTarget /\ c.TargetDirectory /= EmptyTarget
                /\ ~isValidPath(d, c.TargetDirectory)
        THEN [err |-> "target_directory does not exist", cfg |-> c]
        ELSE IF FormatText(c1.DateFormat, TestTime) = c1.DateFormat
        THEN [err |-> "invalid date format", cfg |-> c1]
        ELSE IF ~validStrategy(c1.DuplicateHandling)
        THEN [err |-> "invalid duplicate_handling strategy", cfg |-> c1]
        ELSE IF ~validLogLevel(c2.LogLevel)
        THEN [err |-> "invalid log level", cfg |-> c2]
        ELSE [err |-> "", cfg |-> c2]

RawConfigs ==
    [SourceDirectory : {<<>>, SourceRoot, MissingRoot},
     TargetDirectory : {<<>>, TargetRoot, MissingRoot},
     DateFormat : {"", "2006/01/02", "2006", "YYYY"}, MoveFiles : {TRUE},
     DuplicateHandling : {"rename", "skip", "overwrite", "", "Rename", "merge"},
     CreateBackups : {FALSE}, DryRun : {FALSE}, WorkerThreads : {0, 1},
     BatchSize : {0, 1}, CacheSize : {0, 1}, MaxFilesPerRun : {0}, SkipOrganized : {TRUE},
     LogLevel : {"info", "WARN", "verbose", ""}]

InitValidate ==
    /\ cfg \in RawConfigs
    /\ fs = <<>>
    /\ dirs = {SourceRoot, TargetRoot}
    /\ ioFail = {}
    /\ mkdirFail = {}
    /\ Fresh
    /\ mainPc = "load"

\* config.LoadConfig: Validate, and no configuration at all when it fails
LoadConfig ==
    /\ mainPc = "load"
    /\ cfg' = Validate(cfg, dirs).cfg
    /\ mainPc' = IF Validate(cfg, dirs).err /= "" THEN "fatal" ELSE "start"
    /\ UNCHANGED <<fs, dirs, ioFail, mkdirFail, cache, cstats, stats, errors, finalized,
                   files, sent, fileChan, closed, wpc, wfile, wtarget, wcounter, taken,
                   fs0, dirs0, prior, raced, resolved, extractor, walkFail, plans, server, mutex, caller, calls, summary>>

SpecValidate == InitValidate /\ [][LoadConfig]_vars

\* valid in everything but, perhaps, the duplicate strategy
OtherwiseValid(c, d) ==
    /\ c.SourceDirectory \in d
    /\ c.TargetDirectory = <<>> \/ c.TargetDirectory \in d
    /\ c.DateFormat \in {"", "2006/01/02", "2006"}
    /\ c.LogLevel \in {"info", "WARN"}

\* C17: on a configuration that is valid in every other respect, Validate
\* returns an error if and only if DuplicateHandling is not one of rename,
\* skip, overwrite (compared as written, capitals included).
C17_ValidateStrategy ==
    [][(mainPc = "load" /\ mainPc' /= "load" /\ OtherwiseValid(cfg, dirs)) =>
          (mainPc' = "fatal" <=> cfg.DuplicateHandling \notin {"rename", "skip", "overwrite"})]_vars

C17_Witness ==
    /\ mainPc = "fatal"
    /\ OtherwiseValid(cfg, dirs)
    /\ cfg.DuplicateHandling = "Rename"
    /\ cfg.LogLevel = "WARN"
    /\ cfg.TargetDirectory = <<>>

(***************************************************************************)
(* The web server (internal/web/server.go): it starts with a validated or  *)
(* a default configuration, takes configuration updates over HTTP and      *)
(* starts runs on request.                                                 *)
(***************************************************************************)
\* the duplicate_handling texts a POST to the configuration endpoint may carry
UpdateStrategies == {"rename", "skip", "overwrite", "merge"}

InitWeb ==
    /\ cfg \in [SourceDirectory : {SourceRoot}, TargetDirectory : {TargetRoot},
                DateFormat : {"2006/01/02"}, MoveFiles : {TRUE},
                DuplicateHandling : {"rename"}, CreateBackups : {FALSE},
                DryRun : {TRUE}, WorkerThreads : 1..MaxWorkers,
                BatchSize : {MaxBatch}, MaxFilesPerRun : {0}, SkipOrganized : {TRUE}]
    /\ \E S \in SourceChoices, T \in TargetChoices :
          /\ fs = [p \in S \cup T |-> IF p \in S THEN SourceData(p) ELSE TargetData(p)]
          /\ dirs = {SourceRoot, SourceRoot \o <<"sub">>, TargetRoot}
                      \cup (IF T = {} THEN {} ELSE {SubSeq(DirA, 1, k) : k \in 2..Len(DirA)})
    /\ ioFail = {}
    /\ mkdirFail = {}
    /\ Fresh
    /\ mainPc = "serve"

\* Server.handleUpdateConfig: the fields of the request body are stored as sent
handleUpdateConfig ==
    /\ mainPc = "serve"
    /\ \E strategy \in UpdateStrategies :
          /\ strategy /= cfg.DuplicateHandling
          /\ cfg' = [cfg EXCEPT !.DuplicateHandling = strategy]
    /\ UNCHANGED <<fs, dirs, ioFail, mkdirFail, cache, cstats, stats, errors, finalized,
                   mainPc, files, sent, fileChan, closed, wpc, wfile, wtarget, wcounter,
                   taken, fs0, dirs0, prior, raced, resolved, extractor, walkFail, plans, server, mutex, caller, calls, summary>>

\* a run started by the server is between its acceptance and the return of
\* OrganizeFiles
inFlight == mainPc \in {"start", "wait"}

\* Server.handleOrganize and runOrganizeAsync up to the call of OrganizeFiles.
\* A request accepted while a run is in flight starts a second organizer
\* over its own Statistics; of that run only the acceptance is recorded
handleOrganize ==
    /\ mainPc = "serve" \/ inFlight
    /\ ~server.isRunning
    /\ SourceRoot \in dirs
    /\ IF mainPc = "serve"
       THEN /\ \E dryRun \in BOOLEAN : cfg' = [cfg EXCEPT !.DryRun = dryRun]
            /\ mainPc' = "start"
            /\ server' = [server EXCEPT !.isRunning = TRUE]
       ELSE /\ server' = [server EXCEPT !.isRunning = TRUE, !.overlapped = TRUE]
            /\ UNCHANGED <<cfg, mainPc>>
    /\ UNCHANGED <<fs, dirs, ioFail, mkdirFail, cache, cstats, stats, errors, finalized,
                   files, sent, fileChan, closed, wpc, wfile, wtarget, wcounter,
                   taken, fs0, dirs0, prior, raced, resolved, extractor, walkFail, plans, mutex, caller, calls, summary>>

NextWeb == handleUpdateConfig \/ handleOrganize \/ Next

SpecWeb == InitWeb /\ [][NextWeb]_vars

\* C16: files are processed only under one of the strategies skip,
\* overwrite, rename, and no duplicate_handling entry of the error list is
\* due to the configured strategy being none of these.
C16_UnknownStrategyNeverRuns ==
    /\ stats.TotalFilesProcessed > 0 => cfg.DuplicateHandling \in {"rename", "skip", "overwrite"}
    /\ \A i \in 1..Len(errors) :
          errors[i].Operation = "duplicate_handling" =>
              cfg.DuplicateHandling \in {"rename", "skip", "overwrite"}

(***************************************************************************)
(* The organizer constructed with a DateExtractor that also accepts video  *)
(* containers (NewFileOrganizer takes any extractor.DateExtractor), over   *)
(* trees with an .mpg file and its .thm thumbnail.                         *)
(***************************************************************************)
TgtV == P(DirA, "v", ".mpg")

InitThumb ==
    /\ cfg \in [SourceDirectory : {SourceRoot}, TargetDirectory : {TargetRoot},
                DateFormat : {"2006/01/02"}, MoveFiles : MoveChoices,
                DuplicateHandling : StrategyChoices, CreateBackups : {FALSE},
                DryRun : DryRunChoices, WorkerThreads : 1..MaxWorkers,
                BatchSize : {MaxBatch}, MaxFilesPerRun : {0}, SkipOrganized : {TRUE}]
    /\ \E S \in SUBSET {SrcA, SrcV, SrcThm}, T \in SUBSET {TgtV} :
          /\ fs = [p \in S \cup T |-> IF p \in S THEN SourceData(p)
                                     ELSE F(3, NoDate, 1, DateA, CreateMode)]
          /\ dirs = {SourceRoot, SourceRoot \o <<"sub">>, TargetRoot}
                      \cup (IF T = {} THEN {} ELSE {SubSeq(DirA, 1, k) : k \in 2..Len(DirA)})
    /\ ioFail = {}
    /\ mkdirFail = {}
    /\ FreshWith("video")
    /\ mainPc = "start"

SpecThumb == InitThumb /\ [][Next]_vars

\* worker w's step places its file, which has a paired thumbnail that is
\* still in the source tree, at dst
PlacesPrimary(w, dst) ==
    /\ Live
    /\ wfile[w].HasThumbnail
    /\ wfile[w].Path \in DOMAIN fs
    /\ wfile[w].ThumbnailPath \in DOMAIN fs
    /\ \/ Leaves(w, "place") /\ dst = wtarget[w]
       \/ Leaves(w, "dupPlace") /\ cfg.DuplicateHandling = "overwrite" /\ dst = wtarget[w]
       \/ Leaves(w, "dupPlace") /\ cfg.DuplicateHandling = "rename"
                                /\ dst = Suffixed(wtarget[w], wcounter[w])
    /\ dst \in DOMAIN fs'
    /\ fs'[dst].content = fs[wfile[w].Path].content

MaxOrganizedFiles == 2

SourceDirs ==
    {SourceRoot, SourceRoot \o <<"sub">>, DirYear, DirYearMonth, DirBadMonth, DirSubDay}

OrganizedSourceChoices ==
    {S \in SUBSET {SrcY, SrcZ, SrcQ, SrcW, SrcA, SrcSubA} : Cardinality(S) <= MaxOrganizedFiles}

InitOrganized ==
    /\ cfg \in [SourceDirectory : {SourceRoot}, TargetDirectory : {TargetRoot},
                DateFormat : {"2006/01/02"}, MoveFiles : {TRUE},
                DuplicateHandling : {"rename"}, CreateBackups : {FALSE},
                DryRun : DryRunChoices, WorkerThreads : 1..MaxWorkers,
                BatchSize : {MaxBatch}, MaxFilesPerRun : {0}, SkipOrganized : BOOLEAN]
    /\ \E S \in OrganizedSourceChoices : fs = [p \in S |-> SourceData(p)]
    /\ dirs = SourceDirs \cup {TargetRoot}
    /\ ioFail = {}
    /\ mkdirFail = {}
    /\ Start

SpecOrganized == InitOrganized /\ [][Next]_vars

\* the directories from the source root down to the one that holds p
ancestors(p) == {SubSeq(p.dir, 1, k) : k \in Len(SourceRoot)..Len(p.dir)}

\* base names that read as a year, a year and month, or a full date
DateNamed(dirPath) == dirPath[Len(dirPath)] \in {"2024", "2024-12-25"}

MaxWalkFiles == 3
MaxWalkFail == 2

WalkSourceChoices == {S \in SUBSET {SrcA, SrcA1, SrcSubA} : Cardinality(S) <= MaxWalkFiles}

\* the entries whose Lstat or ReadDir fails: a file, a directory, the root
WalkFailChoices ==
    {X \in SUBSET {Dir(SourceRoot), Dir(SourceRoot \o <<"sub">>), SrcA, SrcSubA} :
        Cardinality(X) <= MaxWalkFail}

InitWalkFail ==
    /\ cfg \in [SourceDirectory : {SourceRoot}, TargetDirectory : {TargetRoot},
                DateFormat : {"2006/01/02"}, MoveFiles : {TRUE},
                DuplicateHandling : {"rename"}, CreateBackups : BackupChoices,
                DryRun : DryRunChoices, WorkerThreads : 1..MaxWorkers,
                BatchSize : {MaxBatch}, MaxFilesPerRun : {0}, SkipOrganized : {TRUE}]
    /\ \E S \in WalkSourceChoices : fs = [p \in S |-> SourceData(p)]
    /\ dirs = {SourceRoot, SourceRoot \o <<"sub">>, TargetRoot}
    /\ ioFail = {}
    /\ mkdirFail = {}
    /\ \E X \in WalkFailChoices : FreshOver("exif", X)
    /\ mainPc = "start"

SpecWalkFail == InitWalkFail /\ [][Next]_vars

\* the entry itself and every directory above it were readable
accessible(p) == p \notin walkFail /\ \A a \in ancestors(p) : Dir(a) \notin walkFail

\* C30: an access error on an entry met during discovery never aborts the
\* walk: discovery returns no error, and it returns every supported file
\* reached through readable entries and none of the entries that failed
C30_AccessErrorsSkipped ==
    mainPc /= "start" =>
        /\ mainPc /= "failed"
        /\ returned = {p \in reachable : accessible(p)}

C30_Witness ==
    /\ mainPc = "done" /\ Live
    /\ DOMAIN fs0 = {SrcA, SrcA1, SrcSubA}
    /\ walkFail = {Dir(SourceRoot \o <<"sub">>), SrcA}
    /\ returned = {SrcA1}
    /\ stats.FilesOrganized = 1
    /\ {SrcA, SrcSubA} \subseteq DOMAIN fs

(***************************************************************************)
(* Planning under every target root and date layout.                       *)
(***************************************************************************)
PlanLayouts == {"2006/01/02", "2006/01", "2006-01-02"}

InitPlan ==
    /\ cfg \in [SourceDirectory : {SourceRoot},
                TargetDirectory : {NilTarget, EmptyTarget, TargetRoot},
                DateFormat : PlanLayouts, MoveFiles : {TRUE},
                DuplicateHandling : {"rename"}, CreateBackups : BackupChoices,
                DryRun : DryRunChoices, WorkerThreads : 1..MaxWorkers,
                BatchSize : {MaxBatch}, MaxFilesPerRun : {0}, SkipOrganized : {TRUE}]
    /\ \E S \in SourceChoices, T \in TargetChoices :
          /\ fs = [p \in S \cup T |-> IF p \in S THEN SourceData(p) ELSE TargetData(p)]
          /\ dirs = {SourceRoot, SourceRoot \o <<"sub">>, TargetRoot}
                      \cup (IF T = {} THEN {} ELSE {SubSeq(DirA, 1, k) : k \in 2..Len(DirA)})
    /\ ioFail = {}
    /\ mkdirFail = {}
    /\ Start

SpecPlan == InitPlan /\ [][Next]_vars

\* the root the plan is made under: the configured target, or the source
\* directory when the target is nil or empty
targetRoot == IF cfg.TargetDirectory \in {NilTarget, EmptyTarget} THEN SourceRoot ELSE TargetRoot

\* C22: the planned destination of a file is targetRoot / date.Format(pattern)
\* / basename(source), whichever worker plans it, whatever else the workers
\* have done by then and whatever the tree holds
C22_PlannedDestination ==
    \A w \in Workers :
        wpc[w] \in {"exists", "dryExists"} =>
            /\ wfile[w].Path \in DOMAIN fs0
            /\ wtarget[w] = [dir  |-> targetRoot \o FormatDate(cfg.DateFormat, plannedDate(fs0[wfile[w].Path])),
                             stem |-> wfile[w].Path.stem,
                             ext  |-> wfile[w].Path.ext]

C22_Witness ==
    /\ cfg.TargetDirectory = EmptyTarget
    /\ cfg.DateFormat = "2006-01-02"
    /\ \E w \in Workers :
          /\ wpc[w] = "exists"
          /\ wfile[w].Path = SrcSubA
          /\ Len(wtarget[w].dir) = 2
          /\ SubSeq(wtarget[w].dir, 1, 1) = SourceRoot
          /\ \E v \in Workers \ {w} : wpc[v] = "recv" /\ taken[1] = <<v>>
    /\ stats.FilesOrganized = 1

(***************************************************************************)
(* Repeated dry runs over the same tree (test_organizer.go,                *)
(* testMoveOrCopyConfig): new Statistics and a new organizer for each run, *)
(* over a new extractor or over the one the earlier run filled.            *)
(***************************************************************************)
MaxDryRuns == 2

RerunDry ==
    /\ mainPc = "done"
    /\ cfg.DryRun
    /\ Len(prior) + 1 < MaxDryRuns
    /\ prior' = Append(prior, [stats |-> stats, finalized |-> finalized, plans |-> plans])
    /\ \E n \in 1..MaxWorkers : cfg' = [cfg EXCEPT !.WorkerThreads = n]
    /\ \E shared \in BOOLEAN :
          /\ cache' = IF shared THEN cache ELSE <<>>
          /\ cstats' = IF shared THEN cstats ELSE [Hits |-> 0, Misses |-> 0]
    /\ stats' = NewStatistics
    /\ errors' = <<>>
    /\ finalized' = 0
    /\ mainPc' = "start"
    /\ files' = <<>>
    /\ sent' = 0
    /\ fileChan' = <<>>
    /\ closed' = FALSE
    /\ wpc' = [w \in Workers |-> "off"]
    /\ wfile' = [w \in Workers |-> NoFile]
    /\ wtarget' = [w \in Workers |-> NoPath]
    /\ taken' = <<>>
    /\ plans' = <<>>
    /\ fs0' = fs
    /\ dirs0' = dirs
    /\ raced' = FALSE
    /\ UNCHANGED <<fs, dirs, ioFail, mkdirFail, wcounter, resolved, extractor, walkFail, server, mutex, caller, calls, summary>>

InitDry ==
    /\ cfg \in [SourceDirectory : {SourceRoot}, TargetDirectory : {TargetRoot},
                DateFormat : {"2006/01/02"}, MoveFiles : MoveChoices,
                DuplicateHandling : {"rename"}, CreateBackups : BackupChoices,
                DryRun : {TRUE}, WorkerThreads : 1..MaxWorkers,
                BatchSize : {MaxBatch}, MaxFilesPerRun : {0}, SkipOrganized : {TRUE}]
    /\ \E S \in SourceChoices, T \in TargetChoices :
          /\ fs = [p \in S \cup T |-> IF p \in S THEN SourceData(p) ELSE TargetData(p)]
          /\ dirs = {SourceRoot, SourceRoot \o <<"sub">>, TargetRoot}
                      \cup (IF T = {} THEN {} ELSE {SubSeq(DirA, 1, k) : k \in 2..Len(DirA)})
          /\ ioFail \in {X \in SUBSET S : Cardinality(X) <= 1}
    /\ mkdirFail = {}
    /\ Start

NextDry == Next \/ RerunDry

SpecDry == InitDry /\ [][NextDry]_vars

\* C23: a dry run repeated over the unchanged tree plans the same destination
\* for every file and reports the same FilesOrganized, DuplicatesFound and
\* FilesWithoutDates as each earlier dry run, for any worker counts and
\* interleavings, with the extractor's cache shared between the runs or not
C23_DryRunsAgree ==
    (mainPc = "done" /\ cfg.DryRun) =>
        \A i \in 1..Len(prior) :
            /\ plans = prior[i].plans
            /\ stats.FilesOrganized = prior[i].stats.FilesOrganized
            /\ stats.DuplicatesFound = prior[i].stats.DuplicatesFound
            /\ stats.FilesWithoutDates = prior[i].stats.FilesWithoutDates

C23_Witness ==
    /\ mainPc = "done" /\ cfg.DryRun
    /\ Len(prior) = 1
    /\ DOMAIN fs0 = {SrcA, SrcV, TgtA}
    /\ cstats.Hits = 1
    /\ cfg.WorkerThreads = 2 /\ taken = <<<<2>>, <<1>>>>
    /\ DOMAIN plans = {SrcA, SrcV}
    /\ plans[SrcA] = TgtA /\ plans[SrcV] = NoPath
    /\ stats.DuplicatesFound = 1 /\ stats.FilesWithoutDates = 1
    /\ fs = fs0

(***************************************************************************)
(* Termination of a run: the goroutines are scheduled fairly and each      *)
(* per-file operation returns.                                             *)
(***************************************************************************)
LiveSourceChoices == {S \in SUBSET {SrcA, SrcSubA, SrcV} : Cardinality(S) <= MaxFiles}

InitLive ==
    /\ cfg \in [SourceDirectory : {SourceRoot}, TargetDirectory : {TargetRoot},
                DateFormat : {"2006/01/02"}, MoveFiles : {TRUE},
                DuplicateHandling : {"rename"}, CreateBackups : BackupChoices,
                DryRun : DryRunChoices, WorkerThreads : 0..MaxWorkers,
                BatchSize : 0..MaxBatch, MaxFilesPerRun : {0}, SkipOrganized : {TRUE}]
    /\ \E S \in LiveSourceChoices : fs = [p \in S |-> SourceData(p)]
    /\ dirs = {SourceRoot, SourceRoot \o <<"sub">>, TargetRoot}
    /\ ioFail = {}
    /\ mkdirFail = {}
    /\ Start

\* the steps of worker goroutine w
workerStep(w) ==
    \/ worker(w)
    \/ processFile(w)
    \/ processFileExists(w)
    \/ handleDuplicate(w)
    \/ generateUniqueFilename(w)
    \/ handleDuplicatePlace(w)
    \/ createDirectory(w)
    \/ createDirectoryMkdir(w)
    \/ processFilePlace(w)
    \/ processDryRunFile(w)
    \/ processDryRunFileExists(w)

\* every goroutine that can run is eventually run
Fairness ==
    /\ WF_vars(OrganizeFiles)
    /\ WF_vars(FeederSend)
    /\ WF_vars(FeederClose)
    /\ WF_vars(Finalize)
    /\ \A w \in Workers : WF_vars(workerStep(w))

SpecLive == InitLive /\ [][Next]_vars /\ Fairness

\* every file was sent and taken, the queue is closed, every worker exited
Drained ==
    /\ sent = Len(files)
    /\ fileChan = <<>>
    /\ files /= <<>> => closed /\ wgWait

\* C24: every run terminates: the feeder sends every file and closes the
\* queue, every worker exits and the run reaches finalization, for any list
\* of discovered files, worker count and queue capacity
C24_RunTerminates ==
    (mainPc = "start") ~> (mainPc = "done" /\ Drained /\ finalized = 1)

\* a run that discovered at least one file drains its queue and finalizes
PipelineTerminates ==
    (mainPc = "wait") ~> (mainPc = "done" /\ Drained /\ finalized = 1)

(***************************************************************************)
(* Runs whose files and thumbnails may fail to be placed.                  *)
(***************************************************************************)
InitFinal ==
    /\ cfg \in [SourceDirectory : {SourceRoot}, TargetDirectory : {TargetRoot},
                DateFormat : {"2006/01/02"}, MoveFiles : MoveChoices,
                DuplicateHandling : {"rename"}, CreateBackups : BackupChoices,
                DryRun : DryRunChoices, WorkerThreads : 1..MaxWorkers,
                BatchSize : {MaxBatch}, MaxFilesPerRun : {0}, SkipOrganized : {TRUE}]
    /\ \E S \in SUBSET {SrcA, SrcV, SrcThm}, T \in SUBSET {TgtA} :
          /\ fs = [p \in S \cup T |-> IF p \in S THEN SourceData(p) ELSE TargetData(p)]
          /\ dirs = {SourceRoot, SourceRoot \o <<"sub">>, TargetRoot}
                      \cup (IF T = {} THEN {} ELSE {SubSeq(DirA, 1, k) : k \in 2..Len(DirA)})
          /\ ioFail \in {X \in SUBSET S : Cardinality(X) <= 1}
    /\ mkdirFail = {}
    /\ FreshWith("video")
    /\ mainPc = "start"

SpecFinal == InitFinal /\ [][Next]_vars

\* C25: within a run, no step after Finalize writes a Statistics counter or
\* adds to the error list, thumbnail errors included
C25_ReadOnlyAfterFinalize ==
    [][(finalized >= 1 /\ finalized' = finalized) => (stats' = stats /\ errors' = errors)]_vars

C25_Witness ==
    /\ mainPc = "done" /\ finalized = 1 /\ Live
    /\ \E i \in 1..Len(errors) : errors[i].Operation = "thumbnail_processing"
    /\ stats.FilesOrganized = 2
    /\ cfg.WorkerThreads = 2

(***************************************************************************)
(* The web server's stop request (internal/web/server.go).                 *)
(***************************************************************************)
\* Server.handleStop: s.isRunning = false, whatever the server is doing
handleStop ==
    /\ mainPc \in {"serve", "start", "wait", "done"}
    /\ server' = [server EXCEPT !.isRunning = FALSE, !.stopped = @ \/ inFlight]
    /\ server' /= server
    /\ UNCHANGED <<cfg, fs, dirs, ioFail, mkdirFail, cache, cstats, stats, errors, finalized,
                   mainPc, files, sent, fileChan, closed, wpc, wfile, wtarget, wcounter,
                   taken, fs0, dirs0, prior, raced, resolved, extractor, walkFail, plans, mutex, caller, calls, summary>>

\* runOrganizeAsync after OrganizeFiles has returned: s.isRunning = false
runOrganizeAsync ==
    /\ mainPc = "done"
    /\ mainPc' = "returned"
    /\ server' = [server EXCEPT !.isRunning = FALSE]
    /\ UNCHANGED <<cfg, fs, dirs, ioFail, mkdirFail, cache, cstats, stats, errors, finalized,
                   files, sent, fileChan, closed, wpc, wfile, wtarget, wcounter,
                   taken, fs0, dirs0, prior, raced, resolved, extractor, walkFail, plans, mutex, caller, calls, summary>>

InitStop ==
    /\ cfg \in [SourceDirectory : {SourceRoot}, TargetDirectory : {TargetRoot},
                DateFormat : {"2006/01/02"}, MoveFiles : {TRUE},
                DuplicateHandling : {"rename"}, CreateBackups : BackupChoices,
                DryRun : {TRUE}, WorkerThreads : 1..MaxWorkers,
                BatchSize : {MaxBatch}, MaxFilesPerRun : {0}, SkipOrganized : {TRUE}]
    /\ \E S \in SourceChoices : fs = [p \in S |-> SourceData(p)]
    /\ dirs = {SourceRoot, SourceRoot \o <<"sub">>, TargetRoot}
    /\ ioFail = {}
    /\ mkdirFail = {}
    /\ Fresh
    /\ mainPc = "serve"

NextStop == handleOrganize \/ handleStop \/ runOrganizeAsync \/ Next

SpecStop == InitStop /\ [][NextStop]_vars

\* a run that was asked to stop still processes every file it discovered
\* and finalizes
StopDoesNotInterrupt ==
    (server.stopped /\ mainPc \in {"done", "returned"} /\ files /= <<>>) =>
        /\ stats.TotalFilesProcessed = Len(files)
        /\ finalized = 1

\* C26: a stop request during a run does not interrupt the run, and after it
\* no new organize run is accepted while the earlier run is in flight
C26_StopOnlyBlocksNewRuns ==
    /\ StopDoesNotInterrupt
    /\ ~server.overlapped


\* C27: every step in which the pipeline fails to resolve a file's date,
\* because the extractor rejects the file or cannot read it, adds exactly
\* one to ExtractionErrors
C27_FailuresCounted ==
    [][\A w \in Workers :
          CountsWithoutDate(w) => stats'.ExtractionErrors = stats.ExtractionErrors + 1]_vars

(***************************************************************************)
(* Statistics under concurrent callers (internal/statistics/statistics.go):*)
(* atomic.AddInt64 is one step; a method under s.mutex is Lock, the read   *)
(* and the write of its body, and the deferred Unlock.                     *)
(***************************************************************************)
MaxStatCalls == 2

Callers == 1..MaxWorkers

completed(w) == calls[w].adds + calls[w].sizes + calls[w].locked + calls[w].errors

\* goroutine w may start another call
mayCall(w) == caller[w].pc = "idle" /\ completed(w) < MaxStatCalls

\* the file goroutine w reports errors for
callerPath(w) == IF w = 1 THEN SrcA ELSE IF w = 2 THEN SrcA1 ELSE SrcSubA

StatsFrame ==
    UNCHANGED <<cfg, fs, dirs, ioFail, mkdirFail, cache, cstats, finalized, mainPc, files,
                sent, fileChan, closed, wpc, wfile, wtarget, wcounter, taken, fs0, dirs0,
                prior, raced, resolved, extractor, walkFail, plans, server, summary>>

\* Statistics.IncrementFilesProcessed: atomic.AddInt64(&s.TotalFilesProcessed, 1)
IncrementFilesProcessed(w) ==
    /\ mayCall(w)
    /\ stats' = Increment(stats, "TotalFilesProcessed")
    /\ calls' = [calls EXCEPT ![w].adds = @ + 1]
    /\ UNCHANGED <<errors, mutex, caller>>
    /\ StatsFrame

\* Statistics.AddBytesProcessed: atomic.AddInt64(&s.BytesProcessed, bytes)
AddBytesProcessed(w) ==
    /\ mayCall(w)
    /\ \E bytes \in 1..2 :
          /\ stats' = [stats EXCEPT !.BytesProcessed = @ + bytes]
          /\ calls' = [calls EXCEPT ![w].sizes = @ + 1, ![w].bytes = @ + bytes]
    /\ UNCHANGED <<errors, mutex, caller>>
    /\ StatsFrame

\* sync.RWMutex.Lock returns when no goroutine holds the mutex
lockFree_Always(m) == m \in 0..MaxWorkers + 1
lockFree(m) == m = 0

\* s.mutex.Lock() of IncrementDateExtractionErrors or of AddError
Lock(w) ==
    /\ mayCall(w)
    /\ lockFree(mutex)
    /\ mutex' = w
    /\ \E op \in {"IncrementDateExtractionErrors", "AddError"} :
          caller' = [caller EXCEPT ![w].pc = "locked", ![w].op = op]
    /\ UNCHANGED <<stats, errors, calls>>
    /\ StatsFrame

\* the body reads s.DateExtractionStats.ExtractionErrors, or s.Errors
BodyRead(w) ==
    /\ caller[w].pc = "locked"
    /\ caller' = [caller EXCEPT ![w].pc = "read",
                                ![w].reg = stats.ExtractionErrors,
                                ![w].slice = errors]
    /\ UNCHANGED <<stats, errors, mutex, calls>>
    /\ StatsFrame

\* the body writes ExtractionErrors++, or s.Errors = append(s.Errors, ...)
BodyWrite(w) ==
    /\ caller[w].pc = "read"
    /\ IF caller[w].op = "AddError"
       THEN /\ errors' = AddError(caller[w].slice, callerPath(w), "move_file")
            /\ UNCHANGED stats
       ELSE /\ stats' = [stats EXCEPT !.ExtractionErrors = caller[w].reg + 1]
            /\ UNCHANGED errors
    /\ caller' = [caller EXCEPT ![w].pc = "written"]
    /\ UNCHANGED <<mutex, calls>>
    /\ StatsFrame

\* defer s.mutex.Unlock(): the call has completed
Unlock(w) ==
    /\ caller[w].pc = "written"
    /\ mutex' = 0
    /\ caller' = [caller EXCEPT ![w] = [pc |-> "idle", op |-> "", reg |-> 0, slice |-> <<>>]]
    /\ calls' = IF caller[w].op = "AddError"
                THEN [calls EXCEPT ![w].errors = @ + 1]
                ELSE [calls EXCEPT ![w].locked = @ + 1]
    /\ UNCHANGED <<stats, errors>>
    /\ StatsFrame

InitStats ==
    /\ cfg \in [SourceDirectory : {SourceRoot}, TargetDirectory : {TargetRoot},
                DateFormat : {"2006/01/02"}, MoveFiles : {TRUE},
                DuplicateHandling : {"rename"}, CreateBackups : BackupChoices,
                DryRun : {FALSE}, WorkerThreads : {MaxWorkers},
                BatchSize : {MaxBatch}, MaxFilesPerRun : {0}, SkipOrganized : {TRUE}]
    /\ fs = <<>>
    /\ dirs = {SourceRoot, TargetRoot}
    /\ ioFail = {}
    /\ mkdirFail = {}
    /\ Fresh
    /\ mainPc = "stats"

NextStats ==
    \/ \E w \in Callers : IncrementFilesProcessed(w)
    \/ \E w \in Callers : AddBytesProcessed(w)
    \/ \E w \in Callers : Lock(w)
    \/ \E w \in Callers : BodyRead(w)
    \/ \E w \in Callers : BodyWrite(w)
    \/ \E w \in Callers : Unlock(w)

SpecStats == InitStats /\ [][NextStats]_vars

RECURSIVE total(_, _)
total(field, S) ==
    IF S = {} THEN 0
    ELSE LET w == CHOOSE x \in S : TRUE IN calls[w][field] + total(field, S \ {w})

\* no Statistics call is in progress
Quiet == \A w \in Callers : caller[w].pc = "idle"

\* every counter holds the number of completed calls on it, and the error
\* list one entry for each completed AddError
AllCounted ==
    /\ stats.TotalFilesProcessed = total("adds", Callers)
    /\ stats.BytesProcessed = total("bytes", Callers)
    /\ stats.ExtractionErrors = total("locked", Callers)
    /\ Len(errors) = total("errors", Callers)
    /\ \A w \in Callers :
          Cardinality({i \in 1..Len(errors) : errors[i].FilePath = callerPath(w)}) = calls[w].errors

\* C28: under any interleaving of Increment*, AddBytesProcessed and AddError
\* calls no update is lost: a counter never decreases, an entry of the error
\* list is never removed or moved, and whenever no call is in progress each
\* counter equals the number of completed calls on it and the error list
\* holds one entry per completed AddError
C28_NoLostUpdates ==
    [][/\ \A field \in {"TotalFilesProcessed", "BytesProcessed", "ExtractionErrors"} :
             stats'[field] >= stats[field]
       /\ Len(errors') >= Len(errors)
       /\ SubSeq(errors', 1, Len(errors)) = errors
       /\ Quiet' => AllCounted']_vars

C28_Witness ==
    /\ Quiet
    /\ stats.ExtractionErrors = 2
    /\ Len(errors) = 2 /\ errors[1].FilePath = SrcA1 /\ errors[2].FilePath = SrcA
    /\ calls[1].locked = 1 /\ calls[2].locked = 1

(***************************************************************************)
(* Statistics.GetErrorSummary over error lists of every length up to       *)
(* MaxErrors. The lines are modelled without the timestamp of the entry.   *)
(***************************************************************************)
MaxErrors == 11
MaxSummaries == 1

\* "Limit to first 10 errors"
SummaryLimit == 10

RECURSIVE PathText(_)
PathText(dir) == IF dir = <<>> THEN "" ELSE Head(dir) \o "/" \o PathText(Tail(dir))

NoErrorsLine == "No errors occurred during processing"
HeaderLine(n) == "Errors (" \o ToString(n) \o " total):"
ErrorLine(e) ==
    "  " \o e.Operation \o ": " \o PathText(e.FilePath.dir) \o e.FilePath.stem \o e.FilePath.ext
MoreLine(k) == "  ... and " \o ToString(k) \o " more errors"

\* "if i >= 10", i counting the entries from 0
pastLimit_Late(i) == i > SummaryLimit
pastLimit(i) == i >= SummaryLimit

\* the loop "for i, err := range s.Errors"
RECURSIVE summaryLines(_, _, _)
summaryLines(errs, i, result) ==
    IF i >= Len(errs) THEN result
    ELSE IF pastLimit(i) THEN Append(result, MoreLine(Len(errs) - SummaryLimit))
    ELSE summaryLines(errs, i + 1, Append(result, ErrorLine(errs[i + 1])))

\* Statistics.GetErrorSummary: the lines of the string it returns
errorSummary(errs) ==
    IF Len(errs) = 0 THEN <<NoErrorsLine>>
    ELSE summaryLines(errs, 0, <<HeaderLine(Len(errs))>>)

SummaryFrame ==
    UNCHANGED <<cfg, fs, dirs, ioFail, mkdirFail, cache, cstats, stats, finalized, mainPc,
                files, sent, fileChan, closed, wpc, wfile, wtarget, wcounter, taken, fs0,
                dirs0, prior, raced, resolved, extractor, walkFail, plans, server, mutex,
                caller, calls>>

\* a whole AddError call
ErrorAdded ==
    /\ mainPc = "stats"
    /\ Len(errors) < MaxErrors
    /\ \E path \in {SrcA, SrcA1} : errors' = AddError(errors, path, "move_file")
    /\ UNCHANGED summary
    /\ SummaryFrame

\* Statistics.GetErrorSummary
GetErrorSummary ==
    /\ mainPc = "stats"
    /\ summary.calls < MaxSummaries
    /\ summary' = [calls |-> summary.calls + 1, lines |-> errorSummary(errors)]
    /\ UNCHANGED errors
    /\ SummaryFrame

NextSummary == ErrorAdded \/ GetErrorSummary

SpecSummary == InitStats /\ [][NextSummary]_vars

\* C29: GetErrorSummary reports that no errors occurred exactly when the list
\* is empty; otherwise it gives the total n, then the first min(10, n) errors
\* in the order they were added, then, when n > 10, one line with the n - 10
\* further errors; and it leaves the error list as it was
C29_ErrorSummary ==
    [][summary'.calls /= summary.calls =>
          LET n == Len(errors)
              lines == summary'.lines
          IN  /\ errors' = errors
              /\ (lines = <<NoErrorsLine>>) <=> (n = 0)
              /\ n > 0 =>
                    /\ lines[1] = HeaderLine(n)
                    /\ Len(lines) = 1 + Min(10, n) + (IF n > 10 THEN 1 ELSE 0)
                    /\ \A i \in 1..Min(10, n) : lines[i + 1] = ErrorLine(errors[i])
                    /\ n > 10 => lines[12] = MoreLine(n - 10)]_vars

C29_Witness ==
    /\ summary.calls = 1
    /\ Len(errors) = 11
    /\ Len(summary.lines) = 12
    /\ summary.lines[1] = "Errors (11 total):"
    /\ summary.lines[2] = "  move_file: src/a.jpg"
    /\ summary.lines[12] = "  ... and 1 more errors"
    /\ errors[1].FilePath = SrcA /\ errors[2].FilePath = SrcA1


(***************************************************************************)
(* Runs with Processing.CreateBackups set; the operating system may        *)
(* refuse to create one backup file or to read one source file.            *)
(***************************************************************************)
InitBackup ==
    /\ cfg \in [SourceDirectory : {SourceRoot}, TargetDirectory : {TargetRoot},
                DateFormat : {"2006/01/02"}, MoveFiles : MoveChoices,
                DuplicateHandling : StrategyChoices, CreateBackups : {TRUE},
                DryRun : DryRunChoices, WorkerThreads : 1..MaxWorkers,
                BatchSize : {MaxBatch}, MaxFilesPerRun : {0}, SkipOrganized : {TRUE}]
    /\ \E S \in SUBSET {SrcA, SrcV, SrcThm}, T \in SUBSET {TgtA} :
          /\ fs = [p \in S \cup T |-> IF p \in S THEN SourceData(p) ELSE TargetData(p)]
          /\ dirs = {SourceRoot, SourceRoot \o <<"sub">>, TargetRoot}
                      \cup (IF T = {} THEN {} ELSE {SubSeq(DirA, 1, k) : k \in 2..Len(DirA)})
          /\ ioFail \in {X \in SUBSET (S \cup {backupPath(p) : p \in S}) : Cardinality(X) <= 1}
    /\ mkdirFail = {}
    /\ FreshWith("video")
    /\ mainPc = "start"

SpecBackup == InitBackup /\ [][Next]_vars

\* worker w's step calls moveFile for its file with backups enabled
MovesWithBackup(w) ==
    /\ Live /\ cfg.MoveFiles /\ cfg.CreateBackups
    /\ wpc[w] \in {"place", "dupPlace"}
    /\ wpc'[w] = "recv"

\* the destination of the moveFile call of worker w's step
moveDest(w) == IF wpc[w] = "dupPlace" THEN dupDest(w) ELSE wtarget[w]

\* what a moveFile call from src to dst must leave, f being the files before it
BackedUpAndMoved(f, src, dst) ==
    /\ RenameOk(f, dirs, ioFail, src, dst) =>
          /\ dst \in DOMAIN fs' /\ fs'[dst].content = f[src].content
          /\ src \notin DOMAIN fs'
    /\ RenameOk(f, dirs, ioFail, src, dst)
         /\ copyFileOk(f, dirs, ioFail, src, backupPath(src)) =>
          /\ backupPath(src) \in DOMAIN fs'
          /\ fs'[backupPath(src)].content = f[src].content

\* C32: with backups enabled, every move of a primary file, of an overwriting
\* or renamed duplicate and of a thumbnail that the operating system allows
\* leaves the source's content at the destination, and also at
\* <source path>.backup when the backup could be written; a backup that
\* fails does not prevent the move.
C32_BackupBeforeMove ==
    [][\A w \in Workers : MovesWithBackup(w) =>
          LET src == wfile[w].Path
              dst == moveDest(w)
              thm == wfile[w].ThumbnailPath
          IN  /\ BackedUpAndMoved(fs, src, dst)
              /\ (wpc[w] = "place" /\ wfile[w].HasThumbnail
                    /\ RenameOk(fs, dirs, ioFail, src, dst)
                    /\ thm \in DOMAIN fs) =>
                    BackedUpAndMoved(fs, thm, thumbnailTarget(dst))]_vars

\* a file was moved and its backup holds the same content; another file was
\* moved although its backup could not be written
C32_Witness ==
    /\ Live /\ cfg.MoveFiles /\ cfg.CreateBackups
    /\ mainPc = "done"
    /\ \E p \in DOMAIN fs0 :
          /\ p \notin DOMAIN fs /\ backupPath(p) \in DOMAIN fs
          /\ fs[backupPath(p)].content = fs0[p].content
          /\ \E q \in DOMAIN fs : q.dir = DirA /\ fs[q].content = fs0[p].content
    /\ \E p \in DOMAIN fs0 :
          /\ p \notin DOMAIN fs /\ backupPath(p) \in ioFail
          /\ backupPath(p) \notin DOMAIN fs


(***************************************************************************)
(* Statistics.GetFilesWithErrors: return int64(len(s.Errors)).             *)
(***************************************************************************)
GetFilesWithErrors == Len(errors)

\* C33: at every point of a run GetFilesWithErrors returns the value of the
\* FilesWithErrors counter that the summary prints.
C33_GetterEqualsCounter == GetFilesWithErrors = stats.FilesWithErrors


(***************************************************************************)
(* In-place organization: no target directory, so files are placed under   *)
(* the source root; the program may be run a second time over the tree the *)
(* first run left (cmd/photo-sorter/main.go: a new process, so a new       *)
(* extractor, Statistics and organizer).                                   *)
(***************************************************************************)
AvailableDateFormats == {"2006/01/02", "2006/01", "2006", "2006-01-02", "2006-01"}

InPlaceSourceChoices ==
    {S \in SUBSET {SrcA, SrcSubA, SrcY, P(DirYearMonthDay, "a", ".jpg")} :
        Cardinality(S) <= MaxFiles}

InitInPlace ==
    /\ cfg \in [SourceDirectory : {SourceRoot}, TargetDirectory : {NilTarget},
                DateFormat : AvailableDateFormats, MoveFiles : MoveChoices,
                DuplicateHandling : {"rename"}, CreateBackups : {FALSE},
                DryRun : DryRunChoices, WorkerThreads : 1..MaxWorkers,
                BatchSize : {MaxBatch}, MaxFilesPerRun : {0}, SkipOrganized : {FALSE}]
    /\ \E S \in InPlaceSourceChoices :
          /\ fs = [p \in S |-> SourceData(p)]
          /\ dirs = {SourceRoot, SourceRoot \o <<"sub">>}
                      \cup UNION {{SubSeq(p.dir, 1, k) : k \in 1..Len(p.dir)} : p \in S}
    /\ ioFail = {}
    /\ mkdirFail = {}
    /\ Start

\* the program is started again with the same configuration
RerunLive ==
    /\ mainPc = "done"
    /\ ~cfg.DryRun
    /\ prior = <<>>
    /\ prior' = Append(prior, [stats |-> stats, finalized |-> finalized, plans |-> plans,
                               errors |-> errors, files |-> files, fs |-> fs0])
    /\ plans' = <<>>
    /\ cache' = <<>>
    /\ cstats' = [Hits |-> 0, Misses |-> 0]
    /\ stats' = NewStatistics
    /\ errors' = <<>>
    /\ finalized' = 0
    /\ mainPc' = "start"
    /\ files' = <<>>
    /\ sent' = 0
    /\ fileChan' = <<>>
    /\ closed' = FALSE
    /\ wpc' = [w \in Workers |-> "off"]
    /\ wfile' = [w \in Workers |-> NoFile]
    /\ wtarget' = [w \in Workers |-> NoPath]
    /\ taken' = <<>>
    /\ fs0' = fs
    /\ dirs0' = dirs
    /\ raced' = FALSE
    /\ UNCHANGED <<cfg, fs, dirs, ioFail, mkdirFail, wcounter, resolved, extractor, walkFail,
                   server, mutex, caller, calls, summary>>

SpecInPlace == InitInPlace /\ [][Next]_vars

\* in-place runs in move mode that leave organized directories alone: every
\* predefined format and strategy live, and one configuration simulated
TwiceSourceChoices ==
    {S \in SUBSET {SrcA, SrcSubA, SrcQ, P(DirYearMonthDay, "a", ".jpg")} :
        Cardinality(S) <= MaxFiles}

InitTwice ==
    /\ cfg \in [SourceDirectory : {SourceRoot}, TargetDirectory : {NilTarget},
                DateFormat : AvailableDateFormats, MoveFiles : {TRUE},
                DuplicateHandling : StrategyChoices, CreateBackups : {FALSE},
                DryRun : {FALSE}, WorkerThreads : 1..MaxWorkers,
                BatchSize : {MaxBatch}, MaxFilesPerRun : {0}, SkipOrganized : {TRUE}]
               \cup
               [SourceDirectory : {SourceRoot}, TargetDirectory : {NilTarget},
                DateFormat : {"2006/01/02"}, MoveFiles : {TRUE},
                DuplicateHandling : {"rename"}, CreateBackups : {FALSE},
                DryRun : {TRUE}, WorkerThreads : {1},
                BatchSize : {MaxBatch}, MaxFilesPerRun : {0}, SkipOrganized : {TRUE}]
    /\ \E S \in TwiceSourceChoices :
          /\ fs = [p \in S |-> SourceData(p)]
          /\ dirs = {SourceRoot, SourceRoot \o <<"sub">>}
                      \cup UNION {{SubSeq(p.dir, 1, k) : k \in 1..Len(p.dir)} : p \in S}
    /\ ioFail = {}
    /\ mkdirFail = {}
    /\ Start

NextTwice == Next \/ RerunLive

SpecTwice == InitTwice /\ [][NextTwice]_vars

\* worker w's step places, in a live run, a file planned onto its own path
PlacesInPlace(w) ==
    /\ Live
    /\ wpc[w] = "place" /\ wpc'[w] = "recv"
    /\ wtarget[w] = wfile[w].Path
    /\ wfile[w].Path \in DOMAIN fs

\* C34: the step that places a candidate whose planned destination is its own
\* path leaves the file at that path with the content it had, in move mode
\* and in copy mode.
C34_InPlaceUnchanged ==
    [][\A w \in Workers : PlacesInPlace(w) =>
          /\ wfile[w].Path \in DOMAIN fs'
          /\ fs'[wfile[w].Path].content = fs[wfile[w].Path].content]_vars


\* the destination directories that did not exist when the run began and exist now
createdDestinations ==
    {d \in dirs \ dirs0 : \E p \in DOMAIN plans : plans[p] /= NoPath /\ plans[p].dir = d}

\* C35: after a live run, whatever the worker count and interleaving,
\* DirectoriesCreated is at most the number of distinct destination
\* directories that did not exist before the run and exist after it.
C35_DirectoriesCountedOnce ==
    (Live /\ mainPc = "done") => stats.DirectoriesCreated <= Cardinality(createdDestinations)


\* the files whose duplicate handling returned an error
duplicateFailures == {k \in 1..Len(errors) : errors[k].Operation = "duplicate_handling"}

\* C36: after a live run every detected duplicate is counted under exactly
\* one resolution: DuplicatesFound = DuplicatesSkipped + DuplicatesRenamed +
\* DuplicatesReplaced + the number of failed duplicate handlings.
C36_DuplicatesAccounted ==
    (Live /\ mainPc = "done") =>
        stats.DuplicatesFound = stats.DuplicatesSkipped + stats.DuplicatesRenamed
                                  + stats.DuplicatesReplaced + Cardinality(duplicateFailures)


(***************************************************************************)
(* The web server's scan endpoint next to organize and stop.               *)
(***************************************************************************)
\* Server.handleScan and runScanAsync up to the call of OrganizeFiles: no
\* test of s.isRunning; the scan is a dry run. Of a scan accepted while a
\* run is in flight only the acceptance is recorded
handleScan ==
    /\ mainPc = "serve" \/ inFlight
    /\ SourceRoot \in dirs
    /\ IF mainPc = "serve"
       THEN /\ cfg' = [cfg EXCEPT !.DryRun = TRUE]
            /\ mainPc' = "start"
            /\ server' = [server EXCEPT !.isRunning = TRUE]
       ELSE /\ server' = [server EXCEPT !.isRunning = TRUE, !.overlapped = TRUE]
            /\ UNCHANGED <<cfg, mainPc>>
    /\ UNCHANGED <<fs, dirs, ioFail, mkdirFail, cache, cstats, stats, errors, finalized,
                   files, sent, fileChan, closed, wpc, wfile, wtarget, wcounter,
                   taken, fs0, dirs0, prior, raced, resolved, extractor, walkFail, plans, mutex, caller, calls, summary>>

NextScan == handleOrganize \/ handleScan \/ handleStop \/ runOrganizeAsync \/ Next

SpecScan == InitStop /\ [][NextScan]_vars

\* an operation started through the server has been accepted and its
\* goroutine has not yet reset the running flag
operationInFlight == mainPc \in {"start", "wait", "done"}

\* C37: no scan or organize operation is accepted while another one is in
\* flight, and the running flag is true exactly while an operation is in
\* flight.
C37_OneOperationInFlight ==
    /\ ~server.overlapped
    /\ server.isRunning <=> operationInFlight


\* C38: no file attached to a candidate as its paired thumbnail is also a
\* candidate of its own, so no file is handled by two workers in one run.
C38_ThumbnailNotCandidate ==
    \A i, j \in 1..Len(files) :
        files[i].HasThumbnail => files[j].Path /= files[i].ThumbnailPath


\* worker w's step resolves its file's date from the modification time: the
\* file can be read, carries no embedded date and is not in the cache
ResolvesFromModTime(w) ==
    /\ Leaves(w, "extract") \/ Leaves(w, "dryExtract")
    /\ wpc'[w] /= "recv"
    /\ wfile[w].Path \in DOMAIN fs
    /\ extractWithGoExif(fs[wfile[w].Path]) = NoDate
    /\ getCacheKey(wfile[w].Path, fs[wfile[w].Path]) \notin DOMAIN cache

\* C39: a date obtained from the modification-time fallback adds one to
\* FromModTime and leaves FromEXIF unchanged.
C39_ProvenanceCounted ==
    [][\A w \in Workers : ResolvesFromModTime(w) =>
          /\ stats'.FromEXIF = stats.FromEXIF
          /\ stats'.FromModTime = stats.FromModTime + 1]_vars


\* the run in progress is the second of two live runs in move mode with
\* skip-organized on, and the first one recorded no error
secondLiveRun ==
    /\ prior /= <<>> /\ "fs" \in DOMAIN prior[1]
    /\ cfg.MoveFiles /\ cfg.SkipOrganized
    /\ cfg.DateFormat \in AvailableDateFormats
    /\ GetTargetDirectory(cfg) = cfg.SourceDirectory
    /\ prior[1].errors = <<>>

\* the files the first run placed: paths that are new or hold other data
\* than before the first run
placedByFirst ==
    {p \in DOMAIN fs0 : p \notin DOMAIN prior[1].fs \/ fs0[p] /= prior[1].fs[p]}

\* C40: in place, in move mode, with skip-organized on and a predefined date
\* format, the second live run after an error-free first one discovers none
\* of the files the first run placed and changes no file or directory.
C40_SecondRunIdle ==
    secondLiveRun =>
        /\ fs = fs0 /\ dirs = dirs0
        /\ \A i \in 1..Len(files) : files[i].Path \notin placedByFirst

\* the second run has finished after a first run that placed a file, and it
\* met again a file the first run had left in the source directory
C40_Witness ==
    /\ secondLiveRun /\ mainPc = "done"
    /\ placedByFirst /= {}
    /\ files /= <<>> /\ stats.TotalFilesProcessed = Len(files)
====
